---- MODULE Spec2Model ----
(***************************************************************************)
(* Model of the workspace-aware CRD resolver (apiBindingAwareCRDLister and *)
(* systemCRDProvider) and of the virtual syncer API reconciler             *)
(* (APIReconciler) of kcp.                                                 *)
(*                                                                         *)
(* Strings that the code builds or takes apart are sequences of tokens:    *)
(* a schema name "widgets.example.io" is <<"widgets", ".", "example.io">>, *)
(* a logical cluster name "root:org" is <<"root", "org">>.                 *)
(***************************************************************************)
EXTENDS Naturals, Integers, Sequences, FiniteSets, TLC

VARIABLES
    store,        \* the CRD informer cache: a sequence of schemas (index order)
    bindings,     \* the APIBinding informer cache: a sequence of bindings
    workspaces,   \* ClusterWorkspace lookups: workspace key -> type, "NotFound" or "Error"
    featureGates, \* the feature gates enabled when the system registry was built
    pristine,     \* the store as the informer filled it (history, never read by the code)
    last,         \* the last resolver call: its request and what it returned
    \* ---- reconciler ----
    syncTargets,  \* the SyncTarget lister: key -> the sync target's Status.SyncedResources
    events,       \* the number of informer events delivered so far
    queue,        \* the work queue: [items, dirty, processing, delayed, shuttingDown]
    apiSets,      \* c.apiSets: API domain key -> (resource -> definition id)
    tearDowns,    \* definition id -> number of TearDown calls received
    inserted,     \* definition ids ever published in apiSets
    worker,       \* the worker goroutine: [pc, key]
    start,        \* Start's position: "init", "running", "tornDown", "returned"
    ctxDone,      \* whether Start's context has been cancelled
    rlog,         \* what the last reconciler step did (history)
    informers     \* the APIExport and APIResourceSchema caches and their last event

resolverVars == <<store, bindings, workspaces, featureGates, pristine, last>>
reconcilerVars == <<syncTargets, events, queue, apiSets, tearDowns, inserted, worker, start, ctxDone, rlog,
                    informers>>
vars == <<store, bindings, workspaces, featureGates, pristine, last,
          syncTargets, events, queue, apiSets, tearDowns, inserted, worker, start, ctxDone, rlog,
          informers>>

\* ------------------------------------------------------------------ bounds

\* bindings per workspace in the initial caches
MaxBindings == 2
\* same-named schemas spread over workspaces in the wildcard scenarios
MaxWild == 3

\* ------------------------------------------------------------- helpers

Range(s) == {s[i] : i \in 1..Len(s)}

EmptyMap == [k \in {} |-> ""]

MapSet(m, k, v) == [x \in (DOMAIN m) \cup {k} |-> IF x = k THEN v ELSE m[x]]

RECURSIVE SeqFilter(_, _)
SeqFilter(s, keep) ==
    IF s = <<>> THEN <<>>
    ELSE (IF Head(s) \in keep THEN <<Head(s)>> ELSE <<>>) \o SeqFilter(Tail(s), keep)

\* all sequences over S of length at most n
SeqsUpTo(S, n) == UNION {[1..k -> S] : k \in 0..n}

\* --------------------------------------------------- names and clusters

RootCluster == <<"root">>
Wildcard == <<"*">>
SystemCRDLogicalCluster == <<"system", "system-crds">>
ShadowWorkspaceName == <<"system", "bound-crds">>

AnnotationAPIIdentityKey == "apis.kcp.dev/identity"
annotationKeyPartialMetadata == "crd.kcp.dev/partial-metadata"
wildcardPartialMetadataSuffix == ".wildcard.partial-metadata"

\* clusters.ToClusterAwareKey: the composite key of an object in a cluster
ToClusterAwareKey(cluster, name) == <<cluster, name>>

\* logicalcluster.Name.HasPrefix
HasPrefix(c, p) == Len(c) >= Len(p) /\ SubSeq(c, 1, Len(p)) = p

\* logicalcluster.Name.Split: parent and last segment
SplitCluster(c) == [parent |-> SubSeq(c, 1, Len(c) - 1), ws |-> c[Len(c)]]

\* a schema name "<resource>.<group>" as tokens
MkName(resource, group) == <<resource, ".", group>>

\* strings.SplitN(name, ".", 2), then "core" normalised to the empty group
crdNameToGroupResource(name) ==
    LET resource == name[1]
        group == IF Len(name) >= 3 THEN name[3] ELSE ""
    IN  [group |-> IF group = "core" THEN "" ELSE group, resource |-> resource]

\* List's crdName closure: Plural + "." + Group
crdName(crd) == <<crd.plural, ".", crd.group>>

\* ------------------------------------------------- system CRD registry

SysKey(resource, group) == ToClusterAwareKey(SystemCRDLogicalCluster, MkName(resource, group))

commonCRDs ==
    { SysKey("clusterworkspaces", "tenancy.kcp.dev"),
      SysKey("clusterworkspacetypes", "tenancy.kcp.dev"),
      SysKey("clusterworkspaceshards", "tenancy.kcp.dev"),
      SysKey("workspaces", "tenancy.kcp.dev") }

GatedCRDs ==
    (IF "LocationAPI" \in featureGates THEN {SysKey("locations", "scheduling.kcp.dev")} ELSE {})
    \cup
    (IF "PlacementAPI" \in featureGates THEN {SysKey("placements", "scheduling.kcp.dev")} ELSE {})

rootCRDs == GatedCRDs

orgCRDs == GatedCRDs

universalCRDs ==
    { SysKey("apiresourceimports", "apiresource.kcp.dev"),
      SysKey("negotiatedapiresources", "apiresource.kcp.dev"),
      SysKey("workloadclusters", "workload.kcp.dev"),
      SysKey("apiexports", "apis.kcp.dev"),
      SysKey("apibindings", "apis.kcp.dev"),
      SysKey("apiresourceschemas", "apis.kcp.dev") }
    \cup GatedCRDs

\* every key the registry can hold, in the order sets.String.List() sorts them
SortedSystemKeys ==
    << SysKey("apibindings", "apis.kcp.dev"),
       SysKey("apiexports", "apis.kcp.dev"),
       SysKey("apiresourceimports", "apiresource.kcp.dev"),
       SysKey("apiresourceschemas", "apis.kcp.dev"),
       SysKey("clusterworkspaces", "tenancy.kcp.dev"),
       SysKey("clusterworkspaceshards", "tenancy.kcp.dev"),
       SysKey("clusterworkspacetypes", "tenancy.kcp.dev"),
       SysKey("locations", "scheduling.kcp.dev"),
       SysKey("negotiatedapiresources", "apiresource.kcp.dev"),
       SysKey("placements", "scheduling.kcp.dev"),
       SysKey("workloadclusters", "workload.kcp.dev"),
       SysKey("workspaces", "tenancy.kcp.dev") >>

\* the injected getClusterWorkspace: the type, "NotFound" or "Error"
getClusterWorkspace(workspaceKey) ==
    IF workspaceKey \in DOMAIN workspaces THEN workspaces[workspaceKey] ELSE "NotFound"

\* Keys without the test that the cluster lies under the root
Keys_anyParent(clusterName) ==
    IF clusterName = RootCluster THEN rootCRDs \cup commonCRDs
    ELSE IF Len(clusterName) >= 2
    THEN LET sp == SplitCluster(clusterName)
             ws == getClusterWorkspace(ToClusterAwareKey(sp.parent, sp.ws))
         IN  IF ws \in {"NotFound", "Error"} THEN {}
             ELSE IF ws = "Universal" THEN universalCRDs \cup commonCRDs
             ELSE IF ws \in {"Organization", "Team"} THEN orgCRDs \cup commonCRDs
             ELSE {}
    ELSE {}

\* systemCRDProvider.Keys
Keys(clusterName) ==
    IF clusterName = RootCluster THEN rootCRDs \cup commonCRDs
    ELSE IF HasPrefix(clusterName, RootCluster)
    THEN LET sp == SplitCluster(clusterName)
             ws == getClusterWorkspace(ToClusterAwareKey(sp.parent, sp.ws))
         IN  IF ws \in {"NotFound", "Error"} THEN {}
             ELSE IF ws = "Universal" THEN universalCRDs \cup commonCRDs
             ELSE IF ws \in {"Organization", "Team"} THEN orgCRDs \cup commonCRDs
             ELSE {}
    ELSE {}

\* ------------------------------------------------------ schemas (CRDs)

FullSchema(variant) == [type |-> "object", properties |-> variant]

\* the minimal schema of makePartialMetadataCRD: {type: object}
MinimalSchema == [type |-> "object", properties |-> ""]

VersionsOf(variant) ==
    IF variant = "a" THEN << [name |-> "v1", schema |-> FullSchema("a")] >>
    ELSE << [name |-> "v1", schema |-> FullSchema("b")],
            [name |-> "v2", schema |-> FullSchema("b")] >>

MkCRD(cluster, name, resource, group, variant, labels, conditions) ==
    [ cluster |-> cluster, name |-> name, uid |-> <<"uid", cluster, name>>,
      plural |-> resource, group |-> group, versions |-> VersionsOf(variant),
      labels |-> labels, annotations |-> EmptyMap, conditions |-> conditions,
      deletionTimestamp |-> 0 ]

\* the part of a schema equality.Semantic.DeepEqual(foundCRD.Spec, crd.Spec) compares
SpecOf(crd) == [group |-> crd.group, plural |-> crd.plural, versions |-> crd.versions]

CRDKey(crd) == ToClusterAwareKey(crd.cluster, crd.name)

NoPtr == <<"nil">>
NoCRD == [cluster |-> <<>>]

\* An object the resolver holds: ptr names the cache object the struct is (NoPtr: a
\* copy), annPtr the cache object whose annotations map it shares (NoPtr: its own
\* map), v its content, writes the writes made through shared memory so far.
Obj(ptr, annPtr, v, writes) == [ptr |-> ptr, annPtr |-> annPtr, v |-> v, writes |-> writes]

Ok(obj) == [err |-> "", obj |-> obj]

Err(e) == [err |-> e, obj |-> Obj(NoPtr, NoPtr, NoCRD, <<>>)]

\* the store holds a schema under the key
InStore(key) == \E i \in 1..Len(store) : CRDKey(store[i]) = key

\* the schema the store holds under the key
StoreAt(key) == CHOOSE c \in Range(store) : CRDKey(c) = key

\* crdLister.Get: the cache object itself, or not-found
crdListerGet(key) ==
    IF \E i \in 1..Len(store) : CRDKey(store[i]) = key
    THEN LET i == CHOOSE i \in 1..Len(store) : CRDKey(store[i]) = key
         IN  Ok(Obj(key, key, store[i], <<>>))
    ELSE Err("NotFound")

\* systemCRDProvider.getCRD
getCRD(key) == crdListerGet(key)

\* crdIndexer.ByIndex(byWorkspace, cluster): the schemas resident in the cluster
crdsByWorkspace(clusterName) ==
    SeqFilter(store, {c \in Range(store) : c.cluster = clusterName})

\* crdIndexer.ByIndex(byGroupResourceName, name): the schemas anywhere with that name
crdsByGroupResourceName(name) ==
    SeqFilter(store, {c \in Range(store) : crdName(c) = name})

\* apiBindingIndexer.ByIndex(byWorkspace, cluster)
bindingsByWorkspace(clusterName) ==
    SeqFilter(bindings, {b \in Range(bindings) : b.cluster = clusterName})

\* apiBindingIndexer.ByIndex(IndexAPIBindingsByIdentityGroupResource, identity/group/resource)
bindingsByIdentityGroupResource(identity, group, resource) ==
    SeqFilter(bindings,
        {b \in Range(bindings) :
            \E i \in 1..Len(b.boundResources) :
                /\ b.boundResources[i].identityHash = identity
                /\ b.boundResources[i].group = group
                /\ b.boundResources[i].resource = resource})

\* conditions.IsTrue(apiBinding, InitialBindingCompleted)
IsCompleted(apiBinding) == apiBinding.completed

\* ------------------------------------------------------ transformations

\* a write to the annotations map of o: it lands in the cache when the map is shared
SetAnnotation(o, k, val) ==
    Obj(o.ptr, o.annPtr, [o.v EXCEPT !.annotations = MapSet(o.v.annotations, k, val)],
        IF o.annPtr = NoPtr THEN o.writes
        ELSE Append(o.writes, [key |-> o.annPtr, field |-> "annotations", k |-> k, val |-> val]))

\* a write to a field of the struct o points to: it lands in the cache when o is the cache object
SetField(o, f, val) ==
    Obj(o.ptr, o.annPtr, [o.v EXCEPT ![f] = val],
        IF o.ptr = NoPtr THEN o.writes
        ELSE Append(o.writes, [key |-> o.ptr, field |-> f, k |-> "", val |-> val]))

\* a shallow copy alone: a new struct that shares the annotations map of in
shallowCopyCRDAndDeepCopyAnnotations_sharedMap(in) == Obj(NoPtr, in.annPtr, in.v, in.writes)

\* shallowCopyCRDAndDeepCopyAnnotations: a new struct with a freshly allocated annotations map
shallowCopyCRDAndDeepCopyAnnotations(in) == Obj(NoPtr, NoPtr, in.v, in.writes)

ZeroCondition == [type |-> "", status |-> ""]

\* apiextensionshelpers.SetCRDCondition: update the first condition of that type, or append
SetCRDCondition(conds, new) ==
    IF \E i \in 1..Len(conds) : conds[i].type = new.type
    THEN LET i == CHOOSE i \in 1..Len(conds) :
                    /\ conds[i].type = new.type
                    /\ \A j \in 1..(i - 1) : conds[j].type # new.type
         IN  [conds EXCEPT ![i] = new]
    ELSE Append(conds, new)

\* decorateCRDWithBinding without the propagation of the binding's deletion timestamp
decorateCRDWithBinding_keepTimestamp(in, identity, deleteTime) ==
    LET out == SetAnnotation(shallowCopyCRDAndDeepCopyAnnotations(in),
                             AnnotationAPIIdentityKey, identity)
        made == [i \in 1..Len(in.v.conditions) |-> ZeroCondition] \o in.v.conditions
    IN  IF deleteTime = 0 THEN out
        ELSE SetField(out, "conditions",
                      SetCRDCondition(made, [type |-> "Terminating", status |-> "True"]))

\* decorateCRDWithBinding; deleteTime 0 is the zero (or nil) time
decorateCRDWithBinding(in, identity, deleteTime) ==
    LET out == SetAnnotation(shallowCopyCRDAndDeepCopyAnnotations(in),
                             AnnotationAPIIdentityKey, identity)
        \* make([]Condition, len(in)) followed by append(out, in...)
        made == [i \in 1..Len(in.v.conditions) |-> ZeroCondition] \o in.v.conditions
    IN  IF deleteTime = 0 THEN out
        ELSE SetField(SetField(out, "deletionTimestamp", deleteTime), "conditions",
                      SetCRDCondition(made, [type |-> "Terminating", status |-> "True"]))

\* makePartialMetadataCRD marking a schema that already carries the marker differently
makePartialMetadataCRD_markAgain(crd) ==
    LET marked == SetAnnotation(crd, annotationKeyPartialMetadata,
                                IF annotationKeyPartialMetadata \in DOMAIN crd.v.annotations
                                THEN "again" ELSE "")
        old == crd.v.versions
    IN  SetField(marked, "versions",
                 [i \in 1..Len(old) |-> [old[i] EXCEPT !.schema = MinimalSchema]])

\* makePartialMetadataCRD: writes through the pointer it is given
makePartialMetadataCRD(crd) ==
    LET marked == SetAnnotation(crd, annotationKeyPartialMetadata, "")
        old == crd.v.versions
    IN  SetField(marked, "versions",
                 [i \in 1..Len(old) |-> [old[i] EXCEPT !.schema = MinimalSchema]])

\* isPartialMetadataHeader: the header as its clauses' "as" parameters ("" when absent)
isPartialMetadataHeader(accept) ==
    \E i \in 1..Len(accept) : accept[i] \in {"PartialObjectMetadata", "PartialObjectMetadataList"}

\* isPartialMetadataRequest: an empty header is no partial-metadata request
isPartialMetadataRequest(ctx) ==
    IF ctx.accept = <<>> THEN FALSE ELSE isPartialMetadataHeader(ctx.accept)

\* labels.Selector.Matches for an equality selector (a set of required pairs)
SelectorMatches(selector, labels) ==
    \A p \in selector : p.k \in DOMAIN labels /\ labels[p.k] = p.val

\* --------------------------------------------------------------- Get

\* the (binding, bound resource) pairs the loops over completed bindings visit, in order
RECURSIVE CompletedBoundResources(_)
CompletedBoundResources(bs) ==
    IF bs = <<>> THEN <<>>
    ELSE (IF IsCompleted(Head(bs))
          THEN [i \in 1..Len(Head(bs).boundResources) |->
                    [binding |-> Head(bs), r |-> Head(bs).boundResources[i]]]
          ELSE <<>>)
         \o CompletedBoundResources(Tail(bs))

\* getSystemCRD fetching the system key for every cluster, whatever Keys holds
getSystemCRD_ungated(clusterName, name) ==
    crdListerGet(ToClusterAwareKey(SystemCRDLogicalCluster, name))

\* apiBindingAwareCRDLister.getSystemCRD
getSystemCRD(clusterName, name) ==
    LET systemCRDKeyName == ToClusterAwareKey(SystemCRDLogicalCluster, name)
    IN  IF clusterName = Wildcard THEN crdListerGet(systemCRDKeyName)
        ELSE IF systemCRDKeyName \notin Keys(clusterName) THEN Err("NotFound")
        ELSE crdListerGet(systemCRDKeyName)

\* getForFullDataWildcard comparing only the second schema with the first
getForFullDataWildcard_secondOnly(name) ==
    LET objs == crdsByGroupResourceName(name)
    IN  IF objs = <<>> THEN Err("NotFound")
        ELSE IF Len(objs) >= 2 /\ SpecOf(objs[2]) # SpecOf(objs[1])
        THEN Err("InternalError")
        ELSE crdListerGet(CRDKey(objs[1]))

\* apiBindingAwareCRDLister.getForFullDataWildcard
getForFullDataWildcard(name) ==
    LET objs == crdsByGroupResourceName(name)
    IN  IF objs = <<>> THEN Err("NotFound")
        ELSE IF \E i \in 2..Len(objs) : SpecOf(objs[i]) # SpecOf(objs[1])
        THEN Err("InternalError")
        ELSE crdListerGet(CRDKey(objs[1]))

\* apiBindingAwareCRDLister.getForWildcardPartialMetadata
getForWildcardPartialMetadata(name) ==
    LET objs == crdsByGroupResourceName(name)
    IN  IF Len(objs) = 0 THEN Err("NotFound")
        ELSE crdListerGet(CRDKey(objs[1]))

\* apiBindingAwareCRDLister.getForIdentity
getForIdentity(name, identity) ==
    LET gr == crdNameToGroupResource(name)
        apiBindings == bindingsByIdentityGroupResource(identity, gr.group, gr.resource)
    IN  IF Len(apiBindings) = 0 THEN Err("NotFound")
        ELSE LET apiBinding == apiBindings[1]
                 brs == apiBinding.boundResources
                 hits == {i \in 1..Len(brs) :
                            /\ brs[i].group = gr.group
                            /\ brs[i].resource = gr.resource
                            /\ brs[i].identityHash = identity}
                 boundCRDName ==
                    IF hits = {} THEN <<>>
                    ELSE brs[CHOOSE i \in hits : \A j \in hits : i <= j].uid
             IN  IF boundCRDName = <<>> THEN Err("NotFound")
                 ELSE LET got == crdListerGet(ToClusterAwareKey(ShadowWorkspaceName, boundCRDName))
                      IN  IF got.err # "" THEN got
                          ELSE Ok(decorateCRDWithBinding(got.obj, identity,
                                                         apiBinding.deletionTimestamp))

\* get looking in the workspace itself before its bindings
get_localFirst(clusterName, name) ==
    LET gr == crdNameToGroupResource(name)
        pairs == CompletedBoundResources(bindingsByWorkspace(clusterName))
        hits == {i \in 1..Len(pairs) :
                    pairs[i].r.group = gr.group /\ pairs[i].r.resource = gr.resource}
        local == crdListerGet(ToClusterAwareKey(clusterName, name))
    IN  IF local.err = "" THEN local
        ELSE IF hits # {}
        THEN LET hit == pairs[CHOOSE i \in hits : \A j \in hits : i <= j]
                 got == crdListerGet(ToClusterAwareKey(ShadowWorkspaceName, hit.r.uid))
             IN  IF got.err = "NotFound" THEN Err("ServiceUnavailable")
                 ELSE IF got.err # "" THEN got
                 ELSE Ok(decorateCRDWithBinding(got.obj, hit.r.identityHash,
                                                hit.binding.deletionTimestamp))
        ELSE Err("NotFound")

\* get passing the lister's not-found on for a bound resource whose shadow schema is missing
get_notFoundOnBrokenBinding(clusterName, name) ==
    LET gr == crdNameToGroupResource(name)
        pairs == CompletedBoundResources(bindingsByWorkspace(clusterName))
        hits == {i \in 1..Len(pairs) :
                    pairs[i].r.group = gr.group /\ pairs[i].r.resource = gr.resource}
    IN  IF hits # {}
        THEN LET hit == pairs[CHOOSE i \in hits : \A j \in hits : i <= j]
                 got == crdListerGet(ToClusterAwareKey(ShadowWorkspaceName, hit.r.uid))
             IN  IF got.err # "" THEN got
                 ELSE Ok(decorateCRDWithBinding(got.obj, hit.r.identityHash,
                                                hit.binding.deletionTimestamp))
        ELSE LET got == crdListerGet(ToClusterAwareKey(clusterName, name))
             IN  IF got.err = "" THEN got ELSE Err("NotFound")

\* apiBindingAwareCRDLister.get
get(clusterName, name) ==
    LET gr == crdNameToGroupResource(name)
        pairs == CompletedBoundResources(bindingsByWorkspace(clusterName))
        hits == {i \in 1..Len(pairs) :
                    pairs[i].r.group = gr.group /\ pairs[i].r.resource = gr.resource}
    IN  IF hits # {}
        THEN LET hit == pairs[CHOOSE i \in hits : \A j \in hits : i <= j]
                 got == crdListerGet(ToClusterAwareKey(ShadowWorkspaceName, hit.r.uid))
             IN  IF got.err = "NotFound" THEN Err("ServiceUnavailable")
                 ELSE IF got.err # "" THEN got
                 ELSE Ok(decorateCRDWithBinding(got.obj, hit.r.identityHash,
                                                hit.binding.deletionTimestamp))
        ELSE LET got == crdListerGet(ToClusterAwareKey(clusterName, name))
             IN  IF got.err # "" /\ got.err # "NotFound" THEN got
                 ELSE IF got.err = "" THEN got
                 ELSE Err("NotFound")

\* the branch falling through to the wildcard and local paths when the identity path
\* finds nothing
GetNonSystem_fallThrough(ctx, name, partialMetadataRequest) ==
    LET byIdentity == IF ctx.identity # "" THEN getForIdentity(name, ctx.identity)
                      ELSE Err("NotFound")
    IN  IF ctx.identity # "" /\ byIdentity.err # "NotFound" THEN byIdentity
        ELSE IF ctx.cluster = Wildcard /\ partialMetadataRequest
        THEN getForWildcardPartialMetadata(name)
        ELSE IF ctx.cluster = Wildcard THEN getForFullDataWildcard(name)
        ELSE get(ctx.cluster, name)

\* the branch of Get that resolves a name the system source does not serve
GetNonSystem(ctx, name, partialMetadataRequest) ==
    IF ctx.identity # "" THEN getForIdentity(name, ctx.identity)
    ELSE IF ctx.cluster = Wildcard /\ partialMetadataRequest
    THEN getForWildcardPartialMetadata(name)
    ELSE IF ctx.cluster = Wildcard THEN getForFullDataWildcard(name)
    ELSE get(ctx.cluster, name)

\* the projection without the wildcard UID
GetProject_keepUID(ctx, name, crd) ==
    makePartialMetadataCRD(shallowCopyCRDAndDeepCopyAnnotations(crd))

\* the tail of Get: the partial-metadata projection of what was resolved
GetProject(ctx, name, crd) ==
    LET projected == makePartialMetadataCRD(shallowCopyCRDAndDeepCopyAnnotations(crd))
    IN  IF ctx.cluster = Wildcard
        THEN SetField(projected, "uid", name \o <<wildcardPartialMetadataSuffix>>)
        ELSE projected

\* apiBindingAwareCRDLister.Get; a context without a cluster has ctx.cluster = <<>>
Get(ctx, name) ==
    IF ctx.cluster = <<>> THEN Err("NoCluster")
    ELSE LET sys == getSystemCRD(ctx.cluster, name)
             partialMetadataRequest == isPartialMetadataRequest(ctx)
         IN  IF sys.err # "" /\ sys.err # "NotFound" THEN sys
             ELSE LET found == IF sys.err = "" THEN sys
                               ELSE GetNonSystem(ctx, name, partialMetadataRequest)
                  IN  IF found.err # "" THEN found
                      ELSE IF partialMetadataRequest
                      THEN Ok(GetProject(ctx, name, found.obj))
                      ELSE found

\* --------------------------------------------------------------- List

\* systemCRDProvider.List: every key of Keys, sorted; the first miss fails the call
RECURSIVE SystemCRDProviderListFrom(_, _)
SystemCRDProviderListFrom(keys, ret) ==
    IF keys = <<>> THEN [err |-> "", objs |-> ret]
    ELSE LET got == getCRD(Head(keys))
         IN  IF got.err # "" THEN [err |-> "SystemCRDError", objs |-> <<>>]
             ELSE SystemCRDProviderListFrom(Tail(keys), Append(ret, got.obj))

SystemCRDProviderList(clusterName) ==
    SystemCRDProviderListFrom(SeqFilter(SortedSystemKeys, Keys(clusterName)), <<>>)

\* ListBindingPass failing the call on a shadow schema that cannot be fetched
RECURSIVE ListBindingPass_fatalFetch(_, _, _, _)
ListBindingPass_fatalFetch(pairs, selector, ret, seen) ==
    IF pairs = <<>> THEN [ret |-> ret, seen |-> seen]
    ELSE LET p == Head(pairs)
             got == crdListerGet(ToClusterAwareKey(ShadowWorkspaceName, p.r.uid))
         IN  IF got.err # "" THEN [ret |-> <<>>, seen |-> seen]
             ELSE IF ~SelectorMatches(selector, got.obj.v.labels)
             THEN ListBindingPass_fatalFetch(Tail(pairs), selector, ret, seen)
             ELSE IF crdName(got.obj.v) \in seen
             THEN ListBindingPass_fatalFetch(Tail(pairs), selector, ret, seen)
             ELSE ListBindingPass_fatalFetch(Tail(pairs), selector,
                     Append(ret, decorateCRDWithBinding(got.obj, p.r.identityHash,
                                                        p.binding.deletionTimestamp)),
                     seen \cup {crdName(got.obj.v)})

\* ListBindingPass without the selector check
RECURSIVE ListBindingPass_ignoreSelector(_, _, _, _)
ListBindingPass_ignoreSelector(pairs, selector, ret, seen) ==
    IF pairs = <<>> THEN [ret |-> ret, seen |-> seen]
    ELSE LET p == Head(pairs)
             got == crdListerGet(ToClusterAwareKey(ShadowWorkspaceName, p.r.uid))
         IN  IF got.err # "" THEN ListBindingPass_ignoreSelector(Tail(pairs), selector, ret, seen)
             ELSE IF crdName(got.obj.v) \in seen
             THEN ListBindingPass_ignoreSelector(Tail(pairs), selector, ret, seen)
             ELSE ListBindingPass_ignoreSelector(Tail(pairs), selector,
                     Append(ret, decorateCRDWithBinding(got.obj, p.r.identityHash,
                                                        p.binding.deletionTimestamp)),
                     seen \cup {crdName(got.obj.v)})

\* List's pass over the bound resources of the completed bindings
RECURSIVE ListBindingPass(_, _, _, _)
ListBindingPass(pairs, selector, ret, seen) ==
    IF pairs = <<>> THEN [ret |-> ret, seen |-> seen]
    ELSE LET p == Head(pairs)
             got == crdListerGet(ToClusterAwareKey(ShadowWorkspaceName, p.r.uid))
         IN  IF got.err # "" THEN ListBindingPass(Tail(pairs), selector, ret, seen)
             ELSE IF ~SelectorMatches(selector, got.obj.v.labels)
             THEN ListBindingPass(Tail(pairs), selector, ret, seen)
             ELSE IF crdName(got.obj.v) \in seen
             THEN ListBindingPass(Tail(pairs), selector, ret, seen)
             ELSE ListBindingPass(Tail(pairs), selector,
                     Append(ret, decorateCRDWithBinding(got.obj, p.r.identityHash,
                                                        p.binding.deletionTimestamp)),
                     seen \cup {crdName(got.obj.v)})

\* the local pass without the check of the seen set
RECURSIVE ListLocalPass_ignoreSeen(_, _, _, _)
ListLocalPass_ignoreSeen(crds, selector, ret, seen) ==
    IF crds = <<>> THEN ret
    ELSE LET crd == Head(crds)
         IN  IF ~SelectorMatches(selector, crd.labels)
             THEN ListLocalPass_ignoreSeen(Tail(crds), selector, ret, seen)
             ELSE ListLocalPass_ignoreSeen(Tail(crds), selector,
                     Append(ret, Obj(CRDKey(crd), CRDKey(crd), crd, <<>>)), seen)

\* List's pass over the schemas of the workspace itself
RECURSIVE ListLocalPass(_, _, _, _)
ListLocalPass(crds, selector, ret, seen) ==
    IF crds = <<>> THEN ret
    ELSE LET crd == Head(crds)
         IN  IF ~SelectorMatches(selector, crd.labels)
             THEN ListLocalPass(Tail(crds), selector, ret, seen)
             ELSE IF crdName(crd) \in seen
             THEN ListLocalPass(Tail(crds), selector, ret, seen)
             ELSE ListLocalPass(Tail(crds), selector,
                     Append(ret, Obj(CRDKey(crd), CRDKey(crd), crd, <<>>)), seen)

\* apiBindingAwareCRDLister.List; fault names the index whose ByIndex returns an error
List(ctx, selector, fault) ==
    IF ctx.cluster = <<>> THEN [err |-> "NoCluster", objs |-> <<>>]
    ELSE LET kcpSystemCRDs == SystemCRDProviderList(ctx.cluster)
         IN  IF kcpSystemCRDs.err # "" THEN [err |-> kcpSystemCRDs.err, objs |-> <<>>]
             ELSE IF fault # "none" THEN [err |-> "IndexError", objs |-> <<>>]
             ELSE LET seen0 == {crdName(kcpSystemCRDs.objs[i].v) :
                                    i \in 1..Len(kcpSystemCRDs.objs)}
                      bound == ListBindingPass(
                                  CompletedBoundResources(bindingsByWorkspace(ctx.cluster)),
                                  selector, kcpSystemCRDs.objs, seen0)
                  IN  [err |-> "",
                       objs |-> ListLocalPass(crdsByWorkspace(ctx.cluster), selector,
                                              bound.ret, bound.seen)]

\* ------------------------------------------------------------ Refresh

\* strings.HasSuffix(string(crd.UID), ".wildcard.partial-metadata")
HasWildcardSuffix(uid) == Len(uid) > 0 /\ uid[Len(uid)] = wildcardPartialMetadataSuffix

\* m without the entries under the keys ks
Without(m, ks) == [k \in (DOMAIN m) \ ks |-> m[k]]

\* the identity annotation of a schema, "" when it has none
IdentityOf(crd) ==
    IF AnnotationAPIIdentityKey \in DOMAIN crd.annotations
    THEN crd.annotations[AnnotationAPIIdentityKey] ELSE ""

\* the schema carries the partial-metadata marker
IsProjected(crd) == annotationKeyPartialMetadata \in DOMAIN crd.annotations

\* every version of the schema has the minimal validation schema
AllMinimal(crd) == \A i \in DOMAIN crd.versions : crd.versions[i].schema = MinimalSchema

\* Refresh that leaves the refreshed copy's own UID in place
Refresh_storeUID(crd) ==
    LET updatedCRD == crdListerGet(ToClusterAwareKey(crd.cluster, crd.name))
    IN  IF updatedCRD.err # "" THEN updatedCRD
        ELSE LET refreshed == shallowCopyCRDAndDeepCopyAnnotations(updatedCRD.obj)
                 withId == IF IdentityOf(crd) # ""
                           THEN SetAnnotation(refreshed, AnnotationAPIIdentityKey, IdentityOf(crd))
                           ELSE refreshed
             IN  IF IsProjected(crd) THEN Ok(makePartialMetadataCRD(withId)) ELSE Ok(withId)

\* apiBindingAwareCRDLister.Refresh; crd is the content of a schema handed out before
Refresh(crd) ==
    LET updatedCRD == crdListerGet(ToClusterAwareKey(crd.cluster, crd.name))
    IN  IF updatedCRD.err # "" THEN updatedCRD
        ELSE LET refreshed == shallowCopyCRDAndDeepCopyAnnotations(updatedCRD.obj)
                 identity == IF AnnotationAPIIdentityKey \in DOMAIN crd.annotations
                             THEN crd.annotations[AnnotationAPIIdentityKey] ELSE ""
                 withId == IF identity # ""
                           THEN SetAnnotation(refreshed, AnnotationAPIIdentityKey, identity)
                           ELSE refreshed
             IN  IF annotationKeyPartialMetadata \in DOMAIN crd.annotations
                 THEN LET partial == makePartialMetadataCRD(withId)
                      IN  Ok(IF HasWildcardSuffix(crd.uid)
                             THEN SetField(partial, "uid", crd.uid) ELSE partial)
                 ELSE Ok(withId)

\* ------------------------------------------- the caches the resolver reads

Org == <<"root", "org">>
Ws2 == <<"root", "org", "ws">>
Ws3 == <<"root", "org", "dev">>

NameWidgets == MkName("widgets", "example.io")
NameCW == MkName("clusterworkspaces", "tenancy.kcp.dev")

Established == [type |-> "Established", status |-> "True"]
NotTerminating == [type |-> "Terminating", status |-> "False"]

LabelsNone == EmptyMap
LabelsApp == [k \in {"app"} |-> "a"]

\* the schema installed in the system workspace under a registry key
SystemCRD(key) ==
    MkCRD(SystemCRDLogicalCluster, key[2], key[2][1], key[2][3], "a", LabelsNone,
          <<Established>>)

\* a schema of a workspace itself: its name is <plural>.<group>
LocalCRD(cluster, name, variant, labels) ==
    MkCRD(cluster, name, name[1], name[3], variant, labels, <<Established>>)

\* a bound schema: it lives in the shadow workspace under the schema UID
ShadowCRD(uid, name, variant, labels, conditions) ==
    MkCRD(ShadowWorkspaceName, uid, name[1], name[3], variant, labels, conditions)

BoundResource(name, uid, identityHash) ==
    [group |-> name[3], resource |-> name[1], uid |-> uid, identityHash |-> identityHash]

Binding(cluster, name, completed, deletionTimestamp, boundResources) ==
    [cluster |-> cluster, name |-> name, completed |-> completed,
     deletionTimestamp |-> deletionTimestamp, boundResources |-> boundResources]

brW1 == BoundResource(NameWidgets, <<"uid1">>, "id1")
brW2 == BoundResource(NameWidgets, <<"uid2">>, "id2")
brCW == BoundResource(NameCW, <<"uid3">>, "id1")

\* the bindings a workspace may hold in the initial caches
OrgBindings ==
    { Binding(Org, "b1", TRUE, 0, <<brW1>>),
      Binding(Org, "b2", TRUE, 7, <<brW2>>),
      Binding(Org, "b3", FALSE, 0, <<brW1>>),
      Binding(Org, "b4", TRUE, 0, <<brCW, brW2>>) }

Ws2Binding == Binding(Ws2, "b5", TRUE, 0, <<brCW, brW2>>)

\* sequences without repetition
Injective(seq) == \A i, j \in 1..Len(seq) : i # j => seq[i] # seq[j]

\* the schemas of the single-workspace scenarios, in cache order
FixedSystemCRDs(gates) ==
    {SystemCRD(SysKey("clusterworkspacetypes", "tenancy.kcp.dev")),
     SystemCRD(SysKey("clusterworkspaceshards", "tenancy.kcp.dev")),
     SystemCRD(SysKey("workspaces", "tenancy.kcp.dev"))}
    \cup (IF "LocationAPI" \in gates
          THEN {SystemCRD(SysKey("locations", "scheduling.kcp.dev"))} ELSE {})

OptionalCRDs ==
    { SystemCRD(SysKey("clusterworkspaces", "tenancy.kcp.dev")),
      LocalCRD(Org, NameWidgets, "a", LabelsApp),
      LocalCRD(Org, NameCW, "b", LabelsNone),
      ShadowCRD(<<"uid1">>, NameWidgets, "a", LabelsNone, <<Established>>),
      ShadowCRD(<<"uid2">>, NameWidgets, "b", LabelsApp, <<Established, NotTerminating>>),
      ShadowCRD(<<"uid3">>, NameCW, "a", LabelsNone, <<>>) }

CacheOrder ==
    << SystemCRD(SysKey("clusterworkspaces", "tenancy.kcp.dev")),
       SystemCRD(SysKey("clusterworkspacetypes", "tenancy.kcp.dev")),
       SystemCRD(SysKey("clusterworkspaceshards", "tenancy.kcp.dev")),
       SystemCRD(SysKey("workspaces", "tenancy.kcp.dev")),
       SystemCRD(SysKey("locations", "scheduling.kcp.dev")),
       ShadowCRD(<<"uid1">>, NameWidgets, "a", LabelsNone, <<Established>>),
       ShadowCRD(<<"uid2">>, NameWidgets, "b", LabelsApp, <<Established, NotTerminating>>),
       ShadowCRD(<<"uid3">>, NameCW, "a", LabelsNone, <<>>),
       LocalCRD(Org, NameCW, "b", LabelsNone),
       LocalCRD(Org, NameWidgets, "a", LabelsApp) >>

\* the same-named schemas of the wildcard scenarios
WildCRDs ==
    { LocalCRD(Org, NameWidgets, "a", LabelsApp),
      LocalCRD(Ws2, NameWidgets, "a", LabelsNone),
      LocalCRD(Ws2, NameWidgets, "b", LabelsNone),
      LocalCRD(Ws3, NameWidgets, "a", LabelsNone),
      LocalCRD(Ws3, NameWidgets, "b", LabelsApp),
      ShadowCRD(<<"uid1">>, NameWidgets, "a", LabelsNone, <<Established>>),
      SystemCRD(ToClusterAwareKey(SystemCRDLogicalCluster, NameWidgets)) }

UniqueKeys(seq) == \A i, j \in 1..Len(seq) : i # j => CRDKey(seq[i]) # CRDKey(seq[j])

\* root:org is an Organization; root:org:ws and root:org:dev have a user-defined type
WorkspaceTypes ==
    [k \in {ToClusterAwareKey(RootCluster, "org"), ToClusterAwareKey(Org, "ws"),
            ToClusterAwareKey(Org, "dev")} |->
        IF k = ToClusterAwareKey(RootCluster, "org") THEN "Organization" ELSE "Custom"]

\* ------------------------------------------------------------ requests

ReqClusters == {Org, Ws2, Wildcard}

Accepts == { <<>>, <<"Table", "PartialObjectMetadataList">>, <<"PartialObjectMetadata">> }

Identities == {"", "id2"}

Ctx(cluster, identity, accept) == [cluster |-> cluster, identity |-> identity, accept |-> accept]

GetCtxs ==
    {Ctx(c, i, a) : c \in ReqClusters, i \in Identities, a \in Accepts}
    \cup {Ctx(<<>>, "", <<>>)}

ReqNames == {NameWidgets, NameCW}

Selectors == { {}, {[k |-> "app", val |-> "a"]} }

\* the index whose lookup fails during a List, if any
IndexFaults == {"none", "apiBindingIndexer", "crdIndexer"}

NoCall == [op |-> "none", ctx |-> Ctx(<<>>, "", <<>>), name |-> <<>>, selector |-> {},
           fault |-> "none", arg |-> NoCRD, out |-> Err(""), objs |-> <<>>, keys |-> {}]

\* the writes a call made through memory it shares with the cache
RECURSIVE ApplyWrites(_, _)
ApplyWrites(st, writes) ==
    IF writes = <<>> THEN st
    ELSE LET w == Head(writes)
             st2 == [i \in 1..Len(st) |->
                        IF CRDKey(st[i]) # w.key THEN st[i]
                        ELSE IF w.field = "annotations"
                        THEN [st[i] EXCEPT !.annotations = MapSet(st[i].annotations, w.k, w.val)]
                        ELSE [st[i] EXCEPT ![w.field] = w.val]]
         IN  ApplyWrites(st2, Tail(writes))

RECURSIVE AllWrites(_)
AllWrites(objs) == IF objs = <<>> THEN <<>> ELSE Head(objs).writes \o AllWrites(Tail(objs))

\* ------------------------------------------------- resolver: the calls

\* changes of the schema cache delivered between a Get and a Refresh
MaxStoreEvents == 1

\* the next generation of a cached schema: other versions, one more annotation
NewerCRD(crd) ==
    [crd EXCEPT !.versions = IF @ = VersionsOf("a") THEN VersionsOf("b") ELSE VersionsOf("a"),
                !.annotations = MapSet(@, "generation", "2")]

\* no APIExport or APIResourceSchema event was delivered yet
NoEvent == [seq |-> 0, kind |-> "none", type |-> "", name |-> "", tombstone |-> FALSE]

\* the record of the reconciler's last step: what ran, on which key, how it ended and the
\* definitions of the set it dropped from the registry
NoStep == [op |-> "none", key |-> "", outcome |-> "", err |-> FALSE, dropped |-> {}]

\* the reconciler before Start is called
ReconcilerIdle ==
    /\ syncTargets = EmptyMap
    /\ events = 0
    /\ queue = [items |-> <<>>, dirty |-> {}, processing |-> {}, delayed |-> {},
                failures |-> {}, shuttingDown |-> FALSE]
    /\ apiSets = EmptyMap
    /\ tearDowns = EmptyMap
    /\ inserted = {}
    /\ worker = [pc |-> "none", key |-> ""]
    /\ start = "init"
    /\ ctxDone = FALSE
    /\ rlog = NoStep
    /\ informers = [exports |-> EmptyMap, schemas |-> {}, event |-> NoEvent]

\* the system schemas every scenario has installed
BaseSystemCRDs(gates) ==
    SeqFilter(CacheOrder, FixedSystemCRDs(gates))

InitSingle ==
    /\ featureGates = {"LocationAPI"}
    /\ \E opt \in SUBSET OptionalCRDs :
          store = SeqFilter(CacheOrder, FixedSystemCRDs(featureGates) \cup opt)
    /\ \E bs \in SeqsUpTo(OrgBindings, MaxBindings), other \in {<<>>, <<Ws2Binding>>} :
          /\ Injective(bs)
          /\ bindings = other \o bs

InitWild ==
    /\ featureGates = {}
    /\ \E seq \in SeqsUpTo(WildCRDs, MaxWild) :
          /\ UniqueKeys(seq)
          /\ store = BaseSystemCRDs(featureGates) \o seq
    /\ bindings \in { <<>>, <<Binding(Org, "b1", TRUE, 0, <<brW1>>)>> }

ResolverInit ==
    /\ (InitSingle \/ InitWild)
    /\ workspaces = WorkspaceTypes
    /\ pristine = store
    /\ last = NoCall

Init == ResolverInit /\ ReconcilerIdle

\* a caller calls Get
GetAct ==
    /\ last.op = "none"
    /\ \E ctx \in GetCtxs, name \in ReqNames :
          LET out == Get(ctx, name)
          IN  /\ last' = [NoCall EXCEPT !.op = "Get", !.ctx = ctx, !.name = name, !.out = out]
              /\ store' = ApplyWrites(store, out.obj.writes)
    /\ UNCHANGED <<bindings, workspaces, featureGates, pristine>>
    /\ UNCHANGED reconcilerVars

\* a caller calls List
ListAct ==
    /\ last.op = "none"
    /\ \E c \in ReqClusters, selector \in Selectors, fault \in IndexFaults :
          LET out == List(Ctx(c, "", <<>>), selector, fault)
          IN  /\ last' = [NoCall EXCEPT !.op = "List", !.ctx = Ctx(c, "", <<>>),
                                        !.selector = selector, !.fault = fault,
                                        !.out = Err(out.err), !.objs = out.objs]
              /\ store' = ApplyWrites(store, AllWrites(out.objs))
    /\ UNCHANGED <<bindings, workspaces, featureGates, pristine>>
    /\ UNCHANGED reconcilerVars

\* a caller hands the schema its last Get returned to Refresh
RefreshAct ==
    /\ last.op = "Get"
    /\ last.out.err = ""
    /\ LET out == Refresh(last.out.obj.v)
       IN  /\ last' = [last EXCEPT !.op = "Refresh", !.arg = last.out.obj.v, !.out = out]
           /\ store' = ApplyWrites(store, out.obj.writes)
    /\ UNCHANGED <<bindings, workspaces, featureGates, pristine>>
    /\ UNCHANGED reconcilerVars

\* the caller of the last Get writes into the annotations map of the schema it was handed
MutateAct ==
    /\ last.op = "Get"
    /\ last.out.err = ""
    /\ store = pristine
    /\ LET before == Obj(last.out.obj.ptr, last.out.obj.annPtr, last.out.obj.v, <<>>)
           after == SetAnnotation(before, "caller", "x")
       IN  /\ last' = [last EXCEPT !.op = "Mutate", !.out = Ok(after)]
           /\ store' = ApplyWrites(store, after.writes)
    /\ UNCHANGED <<bindings, workspaces, featureGates, pristine>>
    /\ UNCHANGED reconcilerVars

\* the caller is done with what the last call returned
ReturnAct ==
    /\ last.op # "none"
    /\ last' = NoCall
    /\ UNCHANGED <<store, bindings, workspaces, featureGates, pristine>>
    /\ UNCHANGED reconcilerVars

Next == GetAct \/ ListAct \/ RefreshAct \/ ReturnAct

Spec == Init /\ [][Next]_vars

\* the scenarios in which callers also write into what Get returned
MutInit ==
    /\ featureGates = {"LocationAPI"}
    /\ \E opt \in SUBSET OptionalCRDs :
          store = SeqFilter(CacheOrder, FixedSystemCRDs(featureGates) \cup opt)
    /\ bindings \in { <<>>, <<Binding(Org, "b1", TRUE, 0, <<brW1>>)>> }
    /\ workspaces = WorkspaceTypes
    /\ pristine = store
    /\ last = NoCall
    /\ ReconcilerIdle

\* the schema informer replaces or deletes the cached schema the last Get was served
\* from, while the caller still holds what Get returned
StoreChangeAct ==
    /\ last.op = "Get"
    /\ last.out.err = ""
    /\ events < MaxStoreEvents
    /\ InStore(CRDKey(last.out.obj.v))
    /\ \E deleted \in BOOLEAN :
          LET key == CRDKey(last.out.obj.v)
              next == IF deleted
                      THEN SeqFilter(store, {c \in Range(store) : CRDKey(c) # key})
                      ELSE [i \in DOMAIN store |->
                               IF CRDKey(store[i]) = key THEN NewerCRD(store[i]) ELSE store[i]]
          IN  /\ store' = next
              /\ pristine' = next
    /\ events' = events + 1
    /\ UNCHANGED <<bindings, workspaces, featureGates, last>>
    /\ UNCHANGED <<syncTargets, queue, apiSets, tearDowns, inserted, worker, start, ctxDone, rlog>>
    /\ UNCHANGED informers

\* the scenarios in which the store changes between a Get and the Refresh of its result
RefInit ==
    /\ featureGates = {"LocationAPI"}
    /\ \E opt \in SUBSET OptionalCRDs :
          store = SeqFilter(CacheOrder, FixedSystemCRDs(featureGates) \cup opt)
    /\ bindings \in { <<>>, <<Binding(Org, "b4", TRUE, 0, <<brCW, brW2>>)>> }
    /\ workspaces = WorkspaceTypes
    /\ pristine = store
    /\ last = NoCall
    /\ ReconcilerIdle

RefNext == GetAct \/ StoreChangeAct \/ RefreshAct \/ ReturnAct

RefSpec == RefInit /\ [][RefNext]_vars

MutNext == GetAct \/ ListAct \/ RefreshAct \/ MutateAct \/ ReturnAct

MutSpec == MutInit /\ [][MutNext]_vars

\* the clusters of the requests that probe the system source: the root and the system
\* workspace itself besides the others
GateClusters == ReqClusters \cup {RootCluster, SystemCRDLogicalCluster}

\* a caller calls Get in any of these clusters
GateGetAct ==
    /\ last.op = "none"
    /\ \E c \in GateClusters, i \in Identities, a \in Accepts, name \in ReqNames :
          LET ctx == Ctx(c, i, a)
              out == Get(ctx, name)
          IN  /\ last' = [NoCall EXCEPT !.op = "Get", !.ctx = ctx, !.name = name, !.out = out]
              /\ store' = ApplyWrites(store, out.obj.writes)
    /\ UNCHANGED <<bindings, workspaces, featureGates, pristine>>
    /\ UNCHANGED reconcilerVars

GateNext == GateGetAct \/ ReturnAct

GateSpec == Init /\ [][GateNext]_vars

\* the feature gates the registry's constructor reads
FeatureGates == {"LocationAPI", "PlacementAPI"}

\* what getClusterWorkspace answers for a key: a workspace of some type, or an error
\* other than not-found (a key without an entry is not found)
LookupOutcomes == {"Universal", "Organization", "Team", "Custom", "Error"}

\* a cluster and its child outside the root's tree
Other == <<"other">>
OtherOrg == <<"other", "org">>

\* the workspace keys a lookup may be made for
WorkspaceKeys ==
    { ToClusterAwareKey(RootCluster, "org"), ToClusterAwareKey(Org, "ws"),
      ToClusterAwareKey(Org, "dev"), ToClusterAwareKey(Other, "org") }

\* the clusters Keys is asked about
KeysClusters ==
    {RootCluster, Org, Ws2, Ws3, Wildcard, SystemCRDLogicalCluster, Other, OtherOrg}

\* the registry built under any feature gates, with any workspaces
KeysInit ==
    /\ featureGates \in SUBSET FeatureGates
    /\ \E known \in SUBSET WorkspaceKeys : workspaces \in [known -> LookupOutcomes]
    /\ store = BaseSystemCRDs(featureGates)
    /\ bindings = <<>>
    /\ pristine = store
    /\ last = NoCall
    /\ ReconcilerIdle

\* a caller asks the registry for the keys of a cluster
KeysAct ==
    /\ last.op = "none"
    /\ \E c \in KeysClusters :
          last' = [NoCall EXCEPT !.op = "Keys", !.ctx = Ctx(c, "", <<>>), !.keys = Keys(c)]
    /\ UNCHANGED <<store, bindings, workspaces, featureGates, pristine>>
    /\ UNCHANGED reconcilerVars

KeysNext == KeysAct \/ ReturnAct

KeysSpec == KeysInit /\ [][KeysNext]_vars

\* the bindings of the scenarios with a binding that has not completed: two bindings of
\* the same resource under the same identity, one of them not completed
IdBindings ==
    { Binding(Org, "b2", TRUE, 7, <<brW2>>),
      Binding(Org, "b6", FALSE, 0, <<brW2>>),
      Binding(Ws2, "b7", FALSE, 0, <<brCW, brW2>>) }

IdInit ==
    /\ featureGates = {"LocationAPI"}
    /\ \E opt \in SUBSET OptionalCRDs :
          store = SeqFilter(CacheOrder, FixedSystemCRDs(featureGates) \cup opt)
    /\ \E bs \in SeqsUpTo(IdBindings, MaxBindings) :
          /\ Injective(bs)
          /\ bindings = bs
    /\ workspaces = WorkspaceTypes
    /\ pristine = store
    /\ last = NoCall
    /\ ReconcilerIdle

IdNext == GetAct \/ ListAct \/ ReturnAct

IdSpec == IdInit /\ [][IdNext]_vars

\* ----------------------------------------------- what the claims speak of

ShadowKey(r) == ToClusterAwareKey(ShadowWorkspaceName, r.uid)

\* the last call is a Get for a single cluster
SingleClusterGet == last.op = "Get" /\ last.ctx.cluster \notin {Wildcard, <<>>}

\* the last call is a Get across all clusters
WildcardGet == last.op = "Get" /\ last.ctx.cluster = Wildcard

\* the Accept header asks for partial object metadata
AsksPartialMetadata(accept) ==
    \E i \in DOMAIN accept : accept[i] = "PartialObjectMetadata" \/ accept[i] = "PartialObjectMetadataList"

\* a request with no identity and no partial-metadata Accept header
PlainCtx(ctx) == ctx.identity = "" /\ ~AsksPartialMetadata(ctx.accept)

\* the system source provides name in cluster c: the key is in Keys(c) and the schema is cached
SystemProvides(c, name) ==
    /\ ToClusterAwareKey(SystemCRDLogicalCluster, name) \in Keys(c)
    /\ InStore(ToClusterAwareKey(SystemCRDLogicalCluster, name))

\* r is a bound resource for the (group, resource) that name spells
BindsName(r, name) ==
    /\ r.resource = name[1]
    /\ r.group = (IF Len(name) >= 3 /\ name[3] # "core" THEN name[3] ELSE "")

\* the positions <<binding, bound resource>> of the binding cache
BoundPositions ==
    UNION {{<<i, j>> : j \in DOMAIN bindings[i].boundResources} : i \in DOMAIN bindings}

\* the (binding, bound resource) pairs of cluster c that bind name, completed or not
DeclaredFor(c, name) ==
    {p \in BoundPositions :
        /\ bindings[p[1]].cluster = c
        /\ BindsName(bindings[p[1]].boundResources[p[2]], name)}

\* those of completed bindings
CompletedFor(c, name) == {p \in DeclaredFor(c, name) : bindings[p[1]].completed}

\* the first of them in index order
FirstCompletedFor(c, name) ==
    CHOOSE p \in CompletedFor(c, name) :
        \A q \in CompletedFor(c, name) : p[1] < q[1] \/ (p[1] = q[1] /\ p[2] <= q[2])

BoundAt(p) == bindings[p[1]].boundResources[p[2]]

\* v is schema s as a binding decorates it: s's content, the identity annotation set to
\* hash, and, for a binding being deleted at del, the deletion timestamp and Terminating=True
DecoratedAs(v, s, hash, del) ==
    /\ v.cluster = s.cluster /\ v.name = s.name /\ v.uid = s.uid
    /\ v.plural = s.plural /\ v.group = s.group /\ v.versions = s.versions
    /\ v.labels = s.labels
    /\ DOMAIN v.annotations = (DOMAIN s.annotations) \cup {AnnotationAPIIdentityKey}
    /\ v.annotations[AnnotationAPIIdentityKey] = hash
    /\ \A k \in DOMAIN s.annotations :
            k # AnnotationAPIIdentityKey => v.annotations[k] = s.annotations[k]
    /\ del = 0 => v.conditions = s.conditions /\ v.deletionTimestamp = s.deletionTimestamp
    /\ del # 0 =>
        /\ v.deletionTimestamp = del
        /\ \E i \in DOMAIN v.conditions :
                v.conditions[i] = [type |-> "Terminating", status |-> "True"]

\* ------------------------------------------------------------------ C1

\* the source of the schema a single-cluster Get returned obeys system > binding > local
PrecedenceObeyed ==
    LET c == last.ctx.cluster
        name == last.name
        out == last.out
    IN  /\ SystemProvides(c, name) =>
            /\ out.err = ""
            /\ out.obj.v.cluster = SystemCRDLogicalCluster
            /\ out.obj.v.name = name
        /\ (~SystemProvides(c, name) /\ CompletedFor(c, name) # {} /\ out.err = "") =>
            /\ out.obj.v.cluster = ShadowWorkspaceName
            /\ \E p \in CompletedFor(c, name) : out.obj.v.name = BoundAt(p).uid
        /\ (out.err = "" /\ out.obj.v.cluster = c) =>
            /\ ~SystemProvides(c, name)
            /\ CompletedFor(c, name) = {}
            /\ out.obj.v.name = name

\* C1 as stated: for every request context whose cluster is not the wildcard, Get returns
\* the system schema when the system provides the name, else the shadow schema of a
\* completed binding of the cluster that binds it, and the local schema only when neither does.
C1_AnyContextPrecedence == SingleClusterGet => PrecedenceObeyed

\* C1 (amended): the same, for request contexts that carry no identity.
C1_Precedence == (SingleClusterGet /\ last.ctx.identity = "") => PrecedenceObeyed

\* system, binding and local all provide the name, and the system schema was returned
C1_Witness ==
    /\ SingleClusterGet /\ last.ctx.identity = ""
    /\ SystemProvides(last.ctx.cluster, last.name)
    /\ CompletedFor(last.ctx.cluster, last.name) # {}
    /\ InStore(ToClusterAwareKey(last.ctx.cluster, last.name))
    /\ last.out.err = ""
    /\ last.out.obj.v.cluster = SystemCRDLogicalCluster

\* ------------------------------------------------------------------ C2

ListCall == last.op = "List"

StoreNames == {crdName(store[i]) : i \in DOMAIN store}

\* the entries List returned under a schema name
EntriesNamed(name) == {i \in DOMAIN last.objs : crdName(last.objs[i].v) = name}

\* the cached shadow schemas that completed bindings of cluster c bind under name
BoundShadows(c, name) ==
    {StoreAt(ShadowKey(r)) : r \in
        {BoundAt(p) : p \in {q \in BoundPositions :
            /\ bindings[q[1]].cluster = c
            /\ bindings[q[1]].completed
            /\ InStore(ShadowKey(BoundAt(q)))
            /\ crdName(StoreAt(ShadowKey(BoundAt(q)))) = name}}}

LocalProvides(c, name) == \E i \in DOMAIN store : store[i].cluster = c /\ crdName(store[i]) = name

SystemListed(c, name) == ToClusterAwareKey(SystemCRDLogicalCluster, name) \in Keys(c)

IsBindingEntry(o) ==
    /\ o.v.cluster = ShadowWorkspaceName
    /\ AnnotationAPIIdentityKey \in DOMAIN o.v.annotations

NamesUnique ==
    \A i, j \in DOMAIN last.objs :
        i # j => crdName(last.objs[i].v) # crdName(last.objs[j].v)

SystemShadows ==
    \A name \in StoreNames :
        SystemListed(last.ctx.cluster, name) =>
            \A i \in EntriesNamed(name) : last.objs[i].v.cluster = SystemCRDLogicalCluster

\* C3 as stated: List returns at most one schema per name; a name that a completed binding
\* (shadow schema cached) and a local schema both provide is listed from the binding, with
\* the identity annotation, never from the local schema, whatever the selector; a system
\* schema shadows both.
C3_BindingShadowsLocalAnySelector ==
    ListCall =>
        /\ NamesUnique
        /\ SystemShadows
        /\ \A name \in StoreNames :
            (/\ ~SystemListed(last.ctx.cluster, name)
             /\ BoundShadows(last.ctx.cluster, name) # {}
             /\ LocalProvides(last.ctx.cluster, name)) =>
                \A i \in EntriesNamed(name) : IsBindingEntry(last.objs[i])

\* C3 (amended): List returns at most one schema per name; a name provided by a completed
\* binding whose cached shadow schema matches the selector and by a local schema is listed
\* exactly once, from the binding with the identity annotation; a system schema shadows both.
C3_BindingShadowsLocal ==
    ListCall =>
        /\ NamesUnique
        /\ SystemShadows
        /\ \A name \in StoreNames :
            (/\ last.out.err = ""
             /\ ~SystemListed(last.ctx.cluster, name)
             /\ \E sh \in BoundShadows(last.ctx.cluster, name) :
                    SelectorMatches(last.selector, sh.labels)
             /\ LocalProvides(last.ctx.cluster, name)) =>
                /\ Cardinality(EntriesNamed(name)) = 1
                /\ \A i \in EntriesNamed(name) : IsBindingEntry(last.objs[i])

\* a binding and a local schema both provide widgets.example.io and one entry is listed
C3_Witness ==
    /\ ListCall /\ last.out.err = ""
    /\ last.selector # {}
    /\ BoundShadows(last.ctx.cluster, NameWidgets) # {}
    /\ LocalProvides(last.ctx.cluster, NameWidgets)
    /\ Cardinality(EntriesNamed(NameWidgets)) = 1
    /\ \A i \in EntriesNamed(NameWidgets) : IsBindingEntry(last.objs[i])
    /\ Cardinality(EntriesNamed(NameCW)) = 1

\* ------------------------------------------------------------------ C4

\* the schemas the by-group-resource-name index holds under a name
IndexedAs(name) == {store[i] : i \in {j \in DOMAIN store : crdName(store[j]) = name}}

\* C4: a wildcard Get without identity and without partial metadata, for a name with no
\* schema in the system workspace, is not-found when no schema is indexed under the name,
\* returns one of the indexed schemas exactly when all their specs are equal, and is an
\* internal error otherwise.
C4_WildcardFullData ==
    (/\ WildcardGet /\ PlainCtx(last.ctx)
     /\ ~InStore(ToClusterAwareKey(SystemCRDLogicalCluster, last.name))) =>
        LET S == IndexedAs(last.name)
            agree == \A x, y \in S : SpecOf(x) = SpecOf(y)
        IN  /\ S = {} => last.out.err = "NotFound"
            /\ (S # {} /\ agree) => (last.out.err = "" /\ last.out.obj.v \in S)
            /\ (S # {} /\ ~agree) => last.out.err = "InternalError"
            /\ last.out.err = "" => agree

\* three schemas are indexed, the first two agree and the third differs: internal error
C4_Witness ==
    /\ WildcardGet /\ PlainCtx(last.ctx)
    /\ ~InStore(ToClusterAwareKey(SystemCRDLogicalCluster, last.name))
    /\ LET objs == crdsByGroupResourceName(last.name)
       IN  /\ Len(objs) = 3
           /\ SpecOf(objs[1]) = SpecOf(objs[2])
           /\ SpecOf(objs[3]) # SpecOf(objs[1])
    /\ last.out.err = "InternalError"

\* ------------------------------------------------------------------ C5

\* C5: a wildcard Get without identity whose Accept header asks for partial metadata
\* succeeds whenever a schema of that name exists, even with diverging specs; the result
\* has UID name + ".wildcard.partial-metadata", the partial-metadata annotation and the
\* minimal schema on every version; without any schema of that name it is not-found.
C5_WildcardPartialMetadata ==
    (WildcardGet /\ last.ctx.identity = "" /\ AsksPartialMetadata(last.ctx.accept)) =>
        IF IndexedAs(last.name) = {} THEN last.out.err = "NotFound"
        ELSE /\ last.out.err = ""
             /\ last.out.obj.v.uid = last.name \o <<".wildcard.partial-metadata">>
             /\ "crd.kcp.dev/partial-metadata" \in DOMAIN last.out.obj.v.annotations
             /\ Len(last.out.obj.v.versions) > 0
             /\ \A i \in DOMAIN last.out.obj.v.versions :
                    last.out.obj.v.versions[i].schema = [type |-> "object", properties |-> ""]

\* schemas with diverging specs exist and the projected first one was returned
C5_Witness ==
    /\ WildcardGet /\ last.ctx.identity = "" /\ AsksPartialMetadata(last.ctx.accept)
    /\ \E x, y \in IndexedAs(last.name) : SpecOf(x) # SpecOf(y)
    /\ ~InStore(ToClusterAwareKey(SystemCRDLogicalCluster, last.name))
    /\ last.out.err = ""
    /\ Len(last.out.obj.v.versions) = 2
    /\ last.out.obj.v.uid = last.name \o <<".wildcard.partial-metadata">>

\* ----------------------------------------------------------------- C10

\* C10 as stated: when a binding of W declares a bound resource (G, R) whose shadow schema
\* is not cached, Get(W, "R.G") is service-unavailable; when no completed binding of W
\* binds (G, R) and W has no local schema of the name, Get is not-found.
C10_AnyDeclaringBinding ==
    (SingleClusterGet /\ last.ctx.identity = "") =>
        /\ (\E p \in DeclaredFor(last.ctx.cluster, last.name) : ~InStore(ShadowKey(BoundAt(p))))
                => last.out.err = "ServiceUnavailable"
        /\ (/\ CompletedFor(last.ctx.cluster, last.name) = {}
            /\ ~InStore(ToClusterAwareKey(last.ctx.cluster, last.name)))
                => last.out.err = "NotFound"

\* C10 (amended): when the system source does not provide the name and the first bound
\* resource for (G, R) among W's completed bindings has no cached shadow schema, a Get
\* without identity is service-unavailable; when the system source does not provide the
\* name, no completed binding of W binds (G, R) and W has no local schema, it is not-found.
C10_BrokenBinding ==
    (SingleClusterGet /\ last.ctx.identity = ""
        /\ ~SystemProvides(last.ctx.cluster, last.name)) =>
        /\ (/\ CompletedFor(last.ctx.cluster, last.name) # {}
            /\ ~InStore(ShadowKey(BoundAt(FirstCompletedFor(last.ctx.cluster, last.name)))))
                => last.out.err = "ServiceUnavailable"
        /\ (/\ CompletedFor(last.ctx.cluster, last.name) = {}
            /\ ~InStore(ToClusterAwareKey(last.ctx.cluster, last.name)))
                => last.out.err = "NotFound"

\* a completed binding's shadow schema is missing while a local schema of the name exists
C10_Witness ==
    /\ SingleClusterGet /\ last.ctx.identity = ""
    /\ ~SystemProvides(last.ctx.cluster, last.name)
    /\ CompletedFor(last.ctx.cluster, last.name) # {}
    /\ ~InStore(ShadowKey(BoundAt(FirstCompletedFor(last.ctx.cluster, last.name))))
    /\ InStore(ToClusterAwareKey(last.ctx.cluster, last.name))
    /\ last.out.err = "ServiceUnavailable"

\* C9: for every schema Get returned, from whichever source, a caller's write into the
\* returned schema's annotations map leaves the schemas held in the store as they were
\* (and with them the result of every later Get or List, which read the store).
C9_AnnotationsIsolated ==
    last.op = "Mutate" => store = pristine

\* ----------------------------------------------------------------- C11

\* every key of Keys(c) can be fetched from the store
SystemPassSucceeds(c) == \A k \in Keys(c) : InStore(k)

\* the bound resources of the completed bindings of cluster c
CompletedPositions(c) ==
    {p \in BoundPositions : bindings[p[1]].cluster = c /\ bindings[p[1]].completed}

\* the last List returned an entry under the name of schema s
ListedUnderNameOf(s) == EntriesNamed(crdName(s)) # {}

\* C11: List fails, returning no schemas, exactly when a key of Keys(C) cannot be fetched
\* or an index lookup of the binding or local pass fails; a bound resource whose shadow
\* schema cannot be fetched is skipped alone: every system schema is still returned, and
\* every other bound schema and every local schema that matches the selector is still
\* listed under its name.
C11_PartialFailures ==
    ListCall =>
        LET c == last.ctx.cluster
        IN  /\ last.out.err # "" <=> (~SystemPassSucceeds(c) \/ last.fault # "none")
            /\ last.out.err # "" => last.objs = <<>>
            /\ last.out.err = "" =>
                /\ \A k \in Keys(c) :
                      \E i \in DOMAIN last.objs : last.objs[i].v = StoreAt(k)
                /\ \A p \in CompletedPositions(c) :
                      (/\ InStore(ShadowKey(BoundAt(p)))
                       /\ SelectorMatches(last.selector, StoreAt(ShadowKey(BoundAt(p))).labels))
                      => ListedUnderNameOf(StoreAt(ShadowKey(BoundAt(p))))
                /\ \A i \in DOMAIN store :
                      (store[i].cluster = c /\ SelectorMatches(last.selector, store[i].labels))
                      => ListedUnderNameOf(store[i])

\* a List skipped a bound resource whose shadow schema is missing and returned the
\* system schemas and the schema of another binding
C11_Witness ==
    /\ ListCall /\ last.out.err = "" /\ last.fault = "none"
    /\ \E p \in CompletedPositions(last.ctx.cluster) : ~InStore(ShadowKey(BoundAt(p)))
    /\ \E i \in DOMAIN last.objs : IsBindingEntry(last.objs[i])
    /\ \E i \in DOMAIN last.objs : last.objs[i].v.cluster = SystemCRDLogicalCluster

\* ----------------------------------------------------------------- C12

STKeys == {"root:org|east", "root:org|west"}

\* the resources a sync target may have synced, in the order reconcile visits them
ResourceOrder == <<"r1", "r2">>

\* a slice: nil, or allocated with its elements
Slice(items) == [isNil |-> FALSE, items |-> items]

NilSlice == [isNil |-> TRUE, items |-> <<>>]

\* the values Status.SyncedResources takes: nil, empty or some resources
SyncedValues == { NilSlice, Slice(<<>>), Slice(<<"r1">>), Slice(<<"r1", "r2">>) }

\* the elements of a slice; a nil slice has none
Items(slice) == slice.items

\* equality.Semantic.DeepEqual on slices: a nil and an empty slice are equal
SemanticDeepEqual(a, b) == Items(a) = Items(b)

\* informer events delivered in a run
MaxEvents == 3

\* workqueue.Add
QueueAdd(q, k) ==
    IF q.shuttingDown \/ k \in q.dirty THEN q
    ELSE IF k \in q.processing THEN [q EXCEPT !.dirty = @ \cup {k}]
    ELSE [q EXCEPT !.dirty = @ \cup {k}, !.items = Append(@, k)]

\* workqueue.Done
QueueDone(q, k) ==
    IF k \in q.dirty
    THEN [q EXCEPT !.processing = @ \ {k}, !.items = Append(@, k)]
    ELSE [q EXCEPT !.processing = @ \ {k}]

\* AddRateLimited that records the failure but never schedules the key
QueueAddRateLimited_notScheduled(q, k) == [q EXCEPT !.failures = @ \cup {k}]

\* workqueue.AddRateLimited: the rate limiter records one more failure of the key, and the
\* key waits for its backoff unless the queue is shutting down
QueueAddRateLimited(q, k) ==
    IF q.shuttingDown THEN [q EXCEPT !.failures = @ \cup {k}]
    ELSE [q EXCEPT !.failures = @ \cup {k}, !.delayed = @ \cup {k}]

\* workqueue.Forget: the rate limiter drops the key's failures
QueueForget(q, k) == [q EXCEPT !.failures = @ \ {k}]

\* workqueue.ShutDown
QueueShutDown(q) == [q EXCEPT !.shuttingDown = TRUE]

\* APIReconciler.enqueueSyncTarget; a final-state-unknown tombstone has no key
enqueueSyncTarget(q, k, tombstone) == IF tombstone THEN q ELSE QueueAdd(q, k)

\* APIReconciler.GetAPIDefinitionSet: the set and whether it exists
GetAPIDefinitionSet(key) ==
    IF key \in DOMAIN apiSets THEN [apiSet |-> apiSets[key], exists |-> TRUE]
    ELSE [apiSet |-> EmptyMap, exists |-> FALSE]

\* APIReconciler.removeAPIDefinitionSet: delete(c.apiSets, key)
removeAPIDefinitionSet(sets, key) == [k \in (DOMAIN sets) \ {key} |-> sets[k]]

\* the definitions of a set
DefsOf(apiSet) == {apiSet[r] : r \in DOMAIN apiSet}

\* TearDown called once on each definition of ds
TearDownAll(td, ds) == [d \in DOMAIN td |-> IF d \in ds THEN td[d] + 1 ELSE td[d]]

\* APIReconciler.reconcile: the new set of an API domain, keeping the definitions of the
\* resources that stay and creating definitions for the added ones
reconcile(key, synced) ==
    LET old == GetAPIDefinitionSet(key).apiSet
        desired == Range(Items(synced))
        added == SeqFilter(ResourceOrder, desired \ DOMAIN old)
        base == Cardinality(inserted)
        idOf(r) == base + (CHOOSE i \in DOMAIN added : added[i] = r)
        newSet == [r \in desired |-> IF r \in DOMAIN old THEN old[r] ELSE idOf(r)]
    IN  [newSet |-> newSet,
         created |-> {idOf(added[i]) : i \in DOMAIN added},
         removed |-> {old[r] : r \in (DOMAIN old) \ desired}]

\* the resolver as the reconciler's runs leave it: untouched
ResolverIdle ==
    /\ featureGates = {}
    /\ store = BaseSystemCRDs(featureGates)
    /\ bindings = <<>>
    /\ workspaces = WorkspaceTypes
    /\ pristine = store
    /\ last = NoCall

RecInit == ResolverIdle /\ ReconcilerIdle

\* the sync-target informer delivers an add: AddFunc
SyncTargetAdd ==
    /\ events < MaxEvents
    /\ events' = events + 1
    /\ \E k \in STKeys \ DOMAIN syncTargets, v \in SyncedValues :
          /\ syncTargets' = MapSet(syncTargets, k, [syncedResources |-> v])
          /\ queue' = enqueueSyncTarget(queue, k, FALSE)
    /\ UNCHANGED <<apiSets, tearDowns, inserted, worker, start, ctxDone, rlog>>
    /\ UNCHANGED resolverVars
    /\ UNCHANGED informers

\* the sync-target informer delivers an update (or a resync): UpdateFunc
SyncTargetUpdate ==
    /\ events < MaxEvents
    /\ events' = events + 1
    /\ \E k \in DOMAIN syncTargets, v \in SyncedValues :
          /\ syncTargets' = MapSet(syncTargets, k, [syncedResources |-> v])
          /\ queue' = IF ~SemanticDeepEqual(syncTargets[k].syncedResources, v)
                      THEN enqueueSyncTarget(queue, k, FALSE)
                      ELSE queue
    /\ UNCHANGED <<apiSets, tearDowns, inserted, worker, start, ctxDone, rlog>>
    /\ UNCHANGED resolverVars
    /\ UNCHANGED informers

\* the sync-target informer delivers a delete, with the object or with a tombstone: DeleteFunc
SyncTargetDelete ==
    /\ events < MaxEvents
    /\ events' = events + 1
    /\ \E k \in DOMAIN syncTargets, tombstone \in BOOLEAN :
          /\ syncTargets' = [j \in (DOMAIN syncTargets) \ {k} |-> syncTargets[j]]
          /\ queue' = enqueueSyncTarget(queue, k, tombstone)
    /\ UNCHANGED <<apiSets, tearDowns, inserted, worker, start, ctxDone, rlog>>
    /\ UNCHANGED resolverVars
    /\ UNCHANGED informers

\* the rate limiter's delay of a key elapses and the key is added
DelayElapses ==
    /\ \E k \in queue.delayed :
          queue' = QueueAdd([queue EXCEPT !.delayed = @ \ {k}], k)
    /\ UNCHANGED <<syncTargets, apiSets, tearDowns, inserted, worker, start, ctxDone, rlog>>
    /\ UNCHANGED events
    /\ UNCHANGED resolverVars
    /\ UNCHANGED informers

\* Start, up to its wait on the context: the worker goroutine is launched
StartCall ==
    /\ start = "init"
    /\ start' = "running"
    /\ worker' = [pc |-> "idle", key |-> ""]
    /\ UNCHANGED <<syncTargets, queue, apiSets, tearDowns, inserted, ctxDone, rlog>>
    /\ UNCHANGED events
    /\ UNCHANGED resolverVars
    /\ UNCHANGED informers

\* the context Start was given is cancelled
CancelCtx ==
    /\ start = "running"
    /\ ~ctxDone
    /\ ctxDone' = TRUE
    /\ UNCHANGED <<syncTargets, queue, apiSets, tearDowns, inserted, worker, start, rlog>>
    /\ UNCHANGED events
    /\ UNCHANGED resolverVars
    /\ UNCHANGED informers

\* Start's last registered defer, the first to run: TearDown on every definition of every set
StartTearDown ==
    /\ start = "running"
    /\ ctxDone
    /\ tearDowns' = TearDownAll(tearDowns, UNION {DefsOf(apiSets[k]) : k \in DOMAIN apiSets})
    /\ start' = "tornDown"
    /\ rlog' = [NoStep EXCEPT !.op = "teardown"]
    /\ UNCHANGED <<syncTargets, queue, apiSets, inserted, worker, ctxDone>>
    /\ UNCHANGED events
    /\ UNCHANGED resolverVars
    /\ UNCHANGED informers

\* Start's remaining defers: the queue is shut down and Start returns
StartQueueShutDown ==
    /\ start = "tornDown"
    /\ queue' = QueueShutDown(queue)
    /\ start' = "returned"
    /\ UNCHANGED <<syncTargets, apiSets, tearDowns, inserted, worker, ctxDone, rlog>>
    /\ UNCHANGED events
    /\ UNCHANGED resolverVars
    /\ UNCHANGED informers

\* APIReconciler.ShutDown
ShutDown ==
    /\ ~queue.shuttingDown
    /\ queue' = QueueShutDown(queue)
    /\ UNCHANGED <<syncTargets, apiSets, tearDowns, inserted, worker, start, ctxDone, rlog>>
    /\ UNCHANGED events
    /\ UNCHANGED resolverVars
    /\ UNCHANGED informers

\* processNextWorkItem, first half: queue.Get hands the worker a key
WorkerGet ==
    /\ worker.pc = "idle"
    /\ queue.items # <<>>
    /\ LET k == Head(queue.items)
       IN  /\ queue' = [queue EXCEPT !.items = Tail(@), !.dirty = @ \ {k},
                                     !.processing = @ \cup {k}]
           /\ worker' = [pc |-> "working", key |-> k]
    /\ UNCHANGED <<syncTargets, apiSets, tearDowns, inserted, start, ctxDone, rlog>>
    /\ UNCHANGED events
    /\ UNCHANGED resolverVars
    /\ UNCHANGED informers

\* queue.Get reports that the queue is shut down and empty; the worker goroutine ends
\* once the context is done
WorkerQuit ==
    /\ worker.pc = "idle"
    /\ queue.items = <<>>
    /\ queue.shuttingDown
    /\ ctxDone
    /\ worker' = [pc |-> "stopped", key |-> ""]
    /\ UNCHANGED <<syncTargets, queue, apiSets, tearDowns, inserted, start, ctxDone, rlog>>
    /\ UNCHANGED events
    /\ UNCHANGED resolverVars
    /\ UNCHANGED informers

\* what process does to the registry for a key: lister is what the sync-target lister
\* answers ("found", "notfound", "error"), fails whether reconcile fails
process(key, lister, fails) ==
    IF lister = "notfound"
    THEN [err |-> FALSE, outcome |-> "absent",
          apiSets |-> removeAPIDefinitionSet(apiSets, key),
          tearDowns |-> tearDowns, inserted |-> inserted]
    ELSE IF lister = "error"
    THEN [err |-> TRUE, outcome |-> "listerError",
          apiSets |-> apiSets, tearDowns |-> tearDowns, inserted |-> inserted]
    ELSE IF fails
    THEN [err |-> TRUE, outcome |-> "reconcileError",
          apiSets |-> apiSets, tearDowns |-> tearDowns, inserted |-> inserted]
    ELSE LET r == reconcile(key, syncTargets[key].syncedResources)
             all == inserted \cup r.created
         IN  [err |-> FALSE, outcome |-> "reconciled",
              apiSets |-> MapSet(apiSets, key, r.newSet),
              tearDowns |-> TearDownAll([d \in all |-> IF d \in inserted THEN tearDowns[d] ELSE 0],
                                        r.removed),
              inserted |-> all]

\* processNextWorkItem, second half: process the key, then AddRateLimited or Forget, then
\* the deferred Done
WorkerProcess ==
    /\ worker.pc = "working"
    /\ \E fault \in BOOLEAN, fails \in BOOLEAN :
          LET key == worker.key
              lister == IF fault THEN "error"
                        ELSE IF key \in DOMAIN syncTargets THEN "found" ELSE "notfound"
              p == process(key, lister, fails)
          IN  /\ (lister # "found") => ~fails
              /\ apiSets' = p.apiSets
              /\ tearDowns' = p.tearDowns
              /\ inserted' = p.inserted
              /\ queue' = QueueDone(IF p.err THEN QueueAddRateLimited(queue, key)
                                    ELSE QueueForget(queue, key),
                                    key)
              /\ rlog' = [op |-> "process", key |-> key, outcome |-> p.outcome,
                          err |-> p.err,
                          dropped |-> IF p.outcome = "absent"
                                      THEN DefsOf(GetAPIDefinitionSet(key).apiSet)
                                      ELSE {}]
    /\ worker' = [pc |-> "idle", key |-> ""]
    /\ UNCHANGED <<syncTargets, events, start, ctxDone>>
    /\ UNCHANGED resolverVars
    /\ UNCHANGED informers

RecNext ==
    \/ SyncTargetAdd
    \/ SyncTargetUpdate
    \/ SyncTargetDelete
    \/ DelayElapses
    \/ StartCall
    \/ CancelCtx
    \/ StartTearDown
    \/ StartQueueShutDown
    \/ ShutDown
    \/ WorkerGet
    \/ WorkerQuit
    \/ WorkerProcess

RecSpec == RecInit /\ [][RecNext]_vars

\* the backoff timer of key k fires
DelayElapsesOf(k) == DelayElapses /\ k \in queue.delayed /\ k \notin queue'.delayed

\* sync targets added in the runs that follow the worker loop to its end
MaxLoopEvents == 1

\* the informer delivers the add of a sync target in such a run
LoopEvent ==
    /\ events < MaxLoopEvents
    /\ SyncTargetAdd

LoopNext ==
    \/ LoopEvent
    \/ DelayElapses
    \/ StartCall
    \/ CancelCtx
    \/ StartTearDown
    \/ StartQueueShutDown
    \/ WorkerGet
    \/ WorkerQuit
    \/ WorkerProcess

\* the reconciler run by Start alone (its queue is shut down by Start's defer), with a
\* worker goroutine that keeps being scheduled and backoff timers that fire
LoopSpec ==
    /\ RecInit
    /\ [][LoopNext]_vars
    /\ WF_vars(WorkerGet)
    /\ WF_vars(WorkerProcess)
    /\ \A k \in STKeys : WF_vars(DelayElapsesOf(k))

\* informer events in the runs that follow a deleted sync target
MaxDelEvents == 2

\* the informer delivers the add or the delete of a sync target in such a run
DelEvent ==
    /\ events < MaxDelEvents
    /\ \/ SyncTargetAdd
       \/ SyncTargetDelete

\* a run of the worker's second half in which the lister answers without a fault
WorkerProcessNoFault == WorkerProcess /\ rlog'.outcome # "listerError"

DelNext ==
    \/ DelEvent
    \/ DelayElapses
    \/ StartCall
    \/ WorkerGet
    \/ WorkerProcess

\* the reconciler while it keeps running (its context is never cancelled), with a worker
\* goroutine that keeps being scheduled, backoff timers that fire and a lister whose
\* faults do not last forever
DelSpec ==
    /\ RecInit
    /\ [][DelNext]_vars
    /\ WF_vars(StartCall)
    /\ WF_vars(WorkerGet)
    /\ WF_vars(WorkerProcess)
    /\ SF_vars(WorkerProcessNoFault)
    /\ \A k \in STKeys : WF_vars(DelayElapsesOf(k))

\* ------------------------------------------------- reconciler: event fan-out

\* the number of informer events a fan-out scenario delivers
MaxFanEvents == 4

\* the APIExports and APIResourceSchemas of the scenarios
Exports == {"e1", "e2"}
Schemas == {"s1", "s2"}

\* the schemas an export may list
ExportContents == { {"s1"}, {"s1", "s2"} }

\* the exports a sync target references: east one, west both
SupportedAPIExports(k) == IF k = "root:org|east" THEN {"e1"} ELSE {"e1", "e2"}

\* the orders in which a lookup may return the elements of S
Perms(S) == {seq \in [1..Cardinality(S) -> S] : Injective(seq)}

\* syncTargetIndexer.ByIndex(indexSyncTargetsByExport, export): the cached sync targets
\* that reference the export
syncTargetsByExport(e) == {k \in DOMAIN syncTargets : e \in SupportedAPIExports(k)}

\* apiExportIndexer.ByIndex(indexAPIExportsByAPIResourceSchema, schema): the cached
\* exports that list the schema
apiExportsByAPIResourceSchema(exports, sch) == {e \in DOMAIN exports : sch \in exports[e]}

\* enqueueSyncTarget on each object of a lookup's result, in the order keys gives
RECURSIVE EnqueueEach(_, _)
EnqueueEach(q, keys) ==
    IF keys = <<>> THEN q
    ELSE EnqueueEach(enqueueSyncTarget(q, Head(keys), FALSE), Tail(keys))

\* APIReconciler.enqueueAPIExport: every sync target of the export's index entry, visited
\* in the order targetOrder puts them
enqueueAPIExport(q, e, targetOrder) ==
    EnqueueEach(q, SeqFilter(targetOrder, syncTargetsByExport(e)))

\* APIReconciler.enqueueAPIResourceSchema: enqueueAPIExport on every export of the
\* schema's index entry
RECURSIVE EnqueueExports(_, _, _)
EnqueueExports(q, es, targetOrder) ==
    IF es = <<>> THEN q
    ELSE EnqueueExports(enqueueAPIExport(q, Head(es), targetOrder), Tail(es), targetOrder)

enqueueAPIResourceSchema(q, exports, sch, exportOrder, targetOrder) ==
    EnqueueExports(q, SeqFilter(exportOrder, apiExportsByAPIResourceSchema(exports, sch)),
                   targetOrder)

\* the record of an event of kind ("export", "schema") and type
Event(kind, type, name, tombstone) ==
    [seq |-> events + 1, kind |-> kind, type |-> type, name |-> name, tombstone |-> tombstone]

\* the APIExport informer delivers an add: AddFunc
APIExportAdd ==
    /\ events < MaxFanEvents
    /\ events' = events + 1
    /\ \E e \in Exports \ DOMAIN informers.exports, ss \in ExportContents,
          targetOrder \in Perms(STKeys) :
          /\ informers' = [informers EXCEPT !.exports = MapSet(@, e, ss),
                                            !.event = Event("export", "add", e, FALSE)]
          /\ queue' = enqueueAPIExport(queue, e, targetOrder)
    /\ UNCHANGED <<syncTargets, apiSets, tearDowns, inserted, worker, start, ctxDone, rlog>>
    /\ UNCHANGED resolverVars

\* the APIExport informer delivers an update (or a resync): UpdateFunc
APIExportUpdate ==
    /\ events < MaxFanEvents
    /\ events' = events + 1
    /\ \E e \in DOMAIN informers.exports, ss \in ExportContents,
          targetOrder \in Perms(STKeys) :
          /\ informers' = [informers EXCEPT !.exports = MapSet(@, e, ss),
                                            !.event = Event("export", "update", e, FALSE)]
          /\ queue' = enqueueAPIExport(queue, e, targetOrder)
    /\ UNCHANGED <<syncTargets, apiSets, tearDowns, inserted, worker, start, ctxDone, rlog>>
    /\ UNCHANGED resolverVars

\* the APIExport informer delivers a delete, with the object or with a tombstone, whose
\* key DeletionHandlingMetaClusterNamespaceKeyFunc computes either way: DeleteFunc
APIExportDelete ==
    /\ events < MaxFanEvents
    /\ events' = events + 1
    /\ \E e \in DOMAIN informers.exports, tombstone \in BOOLEAN,
          targetOrder \in Perms(STKeys) :
          /\ informers' = [informers EXCEPT
                               !.exports = [x \in (DOMAIN @) \ {e} |-> @[x]],
                               !.event = Event("export", "delete", e, tombstone)]
          /\ queue' = enqueueAPIExport(queue, e, targetOrder)
    /\ UNCHANGED <<syncTargets, apiSets, tearDowns, inserted, worker, start, ctxDone, rlog>>
    /\ UNCHANGED resolverVars

\* the APIResourceSchema informer delivers an add: AddFunc
APIResourceSchemaAdd ==
    /\ events < MaxFanEvents
    /\ events' = events + 1
    /\ \E sch \in Schemas \ informers.schemas,
          exportOrder \in Perms(Exports), targetOrder \in Perms(STKeys) :
          /\ informers' = [informers EXCEPT !.schemas = @ \cup {sch},
                                            !.event = Event("schema", "add", sch, FALSE)]
          /\ queue' = enqueueAPIResourceSchema(queue, informers.exports, sch,
                                               exportOrder, targetOrder)
    /\ UNCHANGED <<syncTargets, apiSets, tearDowns, inserted, worker, start, ctxDone, rlog>>
    /\ UNCHANGED resolverVars

\* the APIResourceSchema informer delivers an update (or a resync): the handlers
\* registered for it have no UpdateFunc
APIResourceSchemaUpdate ==
    /\ events < MaxFanEvents
    /\ events' = events + 1
    /\ \E sch \in informers.schemas :
          informers' = [informers EXCEPT !.event = Event("schema", "update", sch, FALSE)]
    /\ UNCHANGED <<syncTargets, queue, apiSets, tearDowns, inserted, worker, start, ctxDone, rlog>>
    /\ UNCHANGED resolverVars

\* the APIResourceSchema informer delivers a delete, with the object or a tombstone: DeleteFunc
APIResourceSchemaDelete ==
    /\ events < MaxFanEvents
    /\ events' = events + 1
    /\ \E sch \in informers.schemas, tombstone \in BOOLEAN,
          exportOrder \in Perms(Exports), targetOrder \in Perms(STKeys) :
          /\ informers' = [informers EXCEPT !.schemas = @ \ {sch},
                                            !.event = Event("schema", "delete", sch, tombstone)]
          /\ queue' = enqueueAPIResourceSchema(queue, informers.exports, sch,
                                               exportOrder, targetOrder)
    /\ UNCHANGED <<syncTargets, apiSets, tearDowns, inserted, worker, start, ctxDone, rlog>>
    /\ UNCHANGED resolverVars

\* the reconciler fed by its three informers
FanNext ==
    \/ SyncTargetAdd
    \/ SyncTargetDelete
    \/ APIExportAdd
    \/ APIExportUpdate
    \/ APIExportDelete
    \/ APIResourceSchemaAdd
    \/ APIResourceSchemaUpdate
    \/ APIResourceSchemaDelete
    \/ StartCall
    \/ WorkerGet
    \/ WorkerProcess

FanSpec == RecInit /\ [][FanNext]_vars

\* ------------------------------------------------- claims on the reconciler

\* the worker finishes processing the key it holds
Processes == worker.pc = "working" /\ worker'.pc = "idle"

\* Start's deferred teardown of the registry runs
TearsDownRegistry == start = "running" /\ start' = "tornDown"

\* C6: once Start has returned after the cancellation of its context, every definition
\* that was ever inserted into the registry has had TearDown called exactly once: none
\* was left without a TearDown and none received two.
C6_TornDownExactlyOnce ==
    start = "returned" => \A d \in inserted : tearDowns[d] = 1

\* C7: when a work item is processed and its sync target is absent from the lister, the
\* set of that key is removed from the registry (GetAPIDefinitionSet then reports
\* exists = false) and every definition of the removed set is torn down in that step;
\* when the lister fails with another error the registry is left unchanged and the
\* error is the processing error.
C7_AbsentSyncTargetTornDown ==
    [][ Processes =>
          /\ rlog'.outcome = "absent" =>
                /\ worker.key \notin DOMAIN apiSets'
                /\ \A d \in DefsOf(GetAPIDefinitionSet(worker.key).apiSet) :
                      tearDowns'[d] = tearDowns[d] + 1
          /\ rlog'.outcome = "listerError" =>
                /\ apiSets' = apiSets
                /\ rlog'.err ]_vars

\* C8: the shutdown teardown of the registry runs only once the queue has been shut
\* down and drained and the worker has stopped, and after that teardown no worker
\* processes a work item (and so none publishes or removes a set).
C8_TearDownAfterWorkersStopped ==
    [][ /\ TearsDownRegistry =>
              /\ queue.shuttingDown
              /\ queue.items = <<>>
              /\ queue.processing = {}
              /\ worker.pc = "stopped"
        /\ start \in {"tornDown", "returned"} => ~Processes ]_vars

\* ----------------------------------------------------------------- C13

\* the sync-target informer delivers an event
SyncTargetEvent == events' = events + 1

\* the event is the add, the delete or an update of the sync target under key k
AddOf(k) == k \notin DOMAIN syncTargets /\ k \in DOMAIN syncTargets'

DeleteOf(k) == k \in DOMAIN syncTargets /\ k \notin DOMAIN syncTargets'

UpdateOf(k) ==
    /\ k \in DOMAIN syncTargets /\ k \in DOMAIN syncTargets'
    /\ syncTargets'[k] # syncTargets[k]

\* C13: an update event of a sync target enqueues its key if and only if the old and
\* the new Status.SyncedResources are not semantically deep-equal; add events and
\* delete events always enqueue the key.
C13_EnqueueOnChange ==
    [][ SyncTargetEvent =>
          /\ syncTargets' = syncTargets => queue' = queue
          /\ \A k \in STKeys :
                /\ (AddOf(k) \/ DeleteOf(k)) => queue' = QueueAdd(queue, k)
                /\ UpdateOf(k) =>
                      queue' = IF SemanticDeepEqual(syncTargets[k].syncedResources,
                                                    syncTargets'[k].syncedResources)
                               THEN queue ELSE QueueAdd(queue, k) ]_vars

\* ----------------------------------------------------------------- C14

\* the cluster lies strictly below the root
StrictlyBelowRoot(c) == Len(c) > Len(RootCluster) /\ c[1] = RootCluster[1]

\* the outcome of looking up the workspace of cluster c in its parent
LookupOf(c) ==
    LET key == <<SubSeq(c, 1, Len(c) - 1), c[Len(c)]>>
    IN  IF key \in DOMAIN workspaces THEN workspaces[key] ELSE "NotFound"

\* the names each feature gate adds to the root, org and universal sets
GateNames ==
    {SysKey("locations", "scheduling.kcp.dev") : g \in featureGates \cap {"LocationAPI"}}
    \cup {SysKey("placements", "scheduling.kcp.dev") : g \in featureGates \cap {"PlacementAPI"}}

CommonSet ==
    {SysKey(r, "tenancy.kcp.dev") :
        r \in {"clusterworkspaces", "clusterworkspacetypes", "clusterworkspaceshards",
               "workspaces"}}

UniversalSet ==
    {SysKey(r, "apiresource.kcp.dev") : r \in {"apiresourceimports", "negotiatedapiresources"}}
    \cup {SysKey("workloadclusters", "workload.kcp.dev")}
    \cup {SysKey(r, "apis.kcp.dev") : r \in {"apiexports", "apibindings", "apiresourceschemas"}}
    \cup GateNames

\* the reference function
KeysReference(c) ==
    IF c = RootCluster THEN GateNames \cup CommonSet
    ELSE IF ~StrictlyBelowRoot(c) THEN {}
    ELSE CASE LookupOf(c) = "Universal" -> UniversalSet \cup CommonSet
           [] LookupOf(c) \in {"Organization", "Team"} -> GateNames \cup CommonSet
           [] OTHER -> {}

\* C14: Keys(cluster) equals the reference function for every cluster name, workspace
\* type and lookup outcome: root gives root with common; below the root, Universal gives
\* universal with common, Organization and Team give org with common, any other type and
\* any failed lookup give the empty set; every cluster not under the root, the wildcard
\* included, gives the empty set.
C14_KeysMatchReference ==
    last.op = "Keys" => last.keys = KeysReference(last.ctx.cluster)

\* Keys answered org with common for a Team workspace below the root with a gate enabled
C14_Witness ==
    /\ last.op = "Keys"
    /\ last.ctx.cluster = Ws2
    /\ LookupOf(Ws2) = "Team"
    /\ "PlacementAPI" \in featureGates
    /\ last.keys = {SysKey("placements", "scheduling.kcp.dev")} \cup CommonSet

\* ----------------------------------------------------------------- C15

\* a copy of the cached schema c, as Get and Refresh make it before projecting
CopyOf(c) == shallowCopyCRDAndDeepCopyAnnotations(crdListerGet(CRDKey(c)).obj)

\* p is the projection of the schema c: c's annotations with the marker, c's versions
\* in order, each with the minimal schema, everything else as in c
IsProjectionOf(p, c) ==
    /\ p.annotations = MapSet(c.annotations, annotationKeyPartialMetadata, "")
    /\ Len(p.versions) = Len(c.versions)
    /\ \A i \in DOMAIN c.versions :
          p.versions[i].name = c.versions[i].name /\ p.versions[i].schema = MinimalSchema
    /\ [p EXCEPT !.annotations = c.annotations, !.versions = c.versions] = c

\* a successful Get of a partial-metadata request has returned
PartialMetadataGetReturned ==
    last.op = "Get" /\ last.out.err = "" /\ isPartialMetadataRequest(last.ctx)

\* C15: partial-metadata projection is idempotent: makePartialMetadataCRD applied twice
\* to a copy of a schema yields the same schema as applied once (same annotations, same
\* versions list, every version with the minimal schema), and the projection of a
\* partial-metadata Get applied to the already projected schema Get returned yields
\* that schema again.
C15_ProjectionIdempotent ==
    /\ \A c \in Range(store) :
          LET once == makePartialMetadataCRD(CopyOf(c))
              twice == makePartialMetadataCRD(once)
          IN  IsProjectionOf(once.v, c) /\ twice.v = once.v
    /\ PartialMetadataGetReturned =>
          /\ makePartialMetadataCRD(last.out.obj).v = last.out.obj.v
          /\ GetProject(last.ctx, last.name, last.out.obj).v = last.out.obj.v

\* a partial-metadata Get returned the projection of a bound schema with two versions
C15_Witness ==
    /\ PartialMetadataGetReturned
    /\ last.ctx.cluster = Org
    /\ AnnotationAPIIdentityKey \in DOMAIN last.out.obj.v.annotations
    /\ Len(last.out.obj.v.versions) = 2
    /\ AllMinimal(last.out.obj.v)
    /\ \E c \in Range(store) :
          /\ c.uid = last.out.obj.v.uid
          /\ c.versions = VersionsOf("b")

\* ----------------------------------------------------------------- C16

\* C16: no resolver operation changes a schema held in the store: after any sequence of
\* List, Get and Refresh calls every cached schema's annotations, versions and their
\* validation schemas, status conditions, deletion timestamp and UID are what they were
\* before; decoration and projection only ever write to a copy.
C16_StoreUnchanged ==
    /\ Len(store) = Len(pristine)
    /\ \A i \in DOMAIN store :
          /\ CRDKey(store[i]) = CRDKey(pristine[i])
          /\ store[i].annotations = pristine[i].annotations
          /\ store[i].versions = pristine[i].versions
          /\ store[i].conditions = pristine[i].conditions
          /\ store[i].deletionTimestamp = pristine[i].deletionTimestamp
          /\ store[i].uid = pristine[i].uid

\* Refresh returned the projection of a schema bound through a binding under deletion,
\* which a partial-metadata Get had decorated and projected before
C16_Witness ==
    /\ last.op = "Refresh"
    /\ last.out.err = ""
    /\ IsProjected(last.arg)
    /\ last.arg.deletionTimestamp # 0
    /\ IsProjected(last.out.obj.v)
    /\ AnnotationAPIIdentityKey \in DOMAIN last.out.obj.v.annotations
    /\ ~IsProjected(StoreAt(CRDKey(last.arg)))
    /\ StoreAt(CRDKey(last.arg)).deletionTimestamp = 0

\* ----------------------------------------------------------------- C17

Terminating == [type |-> "Terminating", status |-> "True"]

\* the conditions cs plus one Terminating=True, which replaces cs's own Terminating
\* condition if it has one
WithTerminating(cs) ==
    IF \E i \in DOMAIN cs : cs[i].type = "Terminating"
    THEN [i \in DOMAIN cs |-> IF cs[i].type = "Terminating" THEN Terminating ELSE cs[i]]
    ELSE Append(cs, Terminating)

\* a single-cluster Get without identity and partial metadata returned the schema of a
\* bound resource
BoundGetReturned ==
    /\ SingleClusterGet
    /\ PlainCtx(last.ctx)
    /\ ~SystemProvides(last.ctx.cluster, last.name)
    /\ CompletedFor(last.ctx.cluster, last.name) # {}
    /\ last.out.err = ""

\* C17: decorating a schema S with a binding whose deletion timestamp is non-zero yields
\* a schema whose conditions are exactly S's conditions, in order, plus one
\* Terminating=True condition (replacing S's own Terminating condition), and whose
\* deletion timestamp is the binding's; with a zero deletion timestamp the conditions
\* and the deletion timestamp are those of S; in both cases the identity annotation is
\* the binding's identity hash.
C17_DecorationConditions ==
    BoundGetReturned =>
        LET p == FirstCompletedFor(last.ctx.cluster, last.name)
            S == StoreAt(ShadowKey(BoundAt(p)))
            del == bindings[p[1]].deletionTimestamp
            v == last.out.obj.v
        IN  /\ v.annotations[AnnotationAPIIdentityKey] = BoundAt(p).identityHash
            /\ del # 0 =>
                  /\ v.conditions = WithTerminating(S.conditions)
                  /\ v.deletionTimestamp = del
            /\ del = 0 =>
                  /\ v.conditions = S.conditions
                  /\ v.deletionTimestamp = S.deletionTimestamp

\* ----------------------------------------------------------------- C18

SystemKeyOf(name) == ToClusterAwareKey(SystemCRDLogicalCluster, name)

\* Get returned a schema resident in the system workspace
ReturnedSystemResident ==
    last.out.err = "" /\ last.out.obj.v.cluster = SystemCRDLogicalCluster

\* with the key outside Keys(C), Get without identity resolves through the bindings of
\* C and then through C's own schemas
ContinuesBelowSystem ==
    LET c == last.ctx.cluster
        name == last.name
    IN  (SystemKeyOf(name) \notin Keys(c) /\ last.ctx.identity = "") =>
            /\ (CompletedFor(c, name) # {}
                    /\ InStore(ShadowKey(BoundAt(FirstCompletedFor(c, name))))) =>
                  /\ last.out.err = ""
                  /\ CRDKey(last.out.obj.v) = ShadowKey(BoundAt(FirstCompletedFor(c, name)))
            /\ (CompletedFor(c, name) = {} /\ InStore(ToClusterAwareKey(c, name))) =>
                  /\ last.out.err = ""
                  /\ CRDKey(last.out.obj.v) = ToClusterAwareKey(c, name)

\* for the wildcard, a cached schema under the system key is what Get returns, whatever
\* Keys holds and whatever same-named schemas other workspaces have
WildcardUngated ==
    (WildcardGet /\ InStore(SystemKeyOf(last.name))) =>
        /\ last.out.err = ""
        /\ CRDKey(last.out.obj.v) = SystemKeyOf(last.name)

\* C18 as stated: for a non-wildcard cluster C, Get returns a schema resident in the
\* system workspace only if its key is in Keys(C); with the key outside Keys(C)
\* resolution continues with the lower-priority sources; for the wildcard any schema
\* under the system key is returned without consulting Keys and without divergence check.
C18_SystemGating ==
    /\ (SingleClusterGet /\ ReturnedSystemResident) =>
            CRDKey(last.out.obj.v) \in Keys(last.ctx.cluster)
    /\ SingleClusterGet => ContinuesBelowSystem
    /\ WildcardUngated

\* C18 (amended): the same, for non-wildcard clusters C other than the system workspace
\* itself, whose schemas are C's own local schemas.
C18_SystemGatingOutsideSystemWorkspace ==
    /\ (SingleClusterGet /\ ReturnedSystemResident
            /\ last.ctx.cluster # SystemCRDLogicalCluster) =>
            CRDKey(last.out.obj.v) \in Keys(last.ctx.cluster)
    /\ SingleClusterGet => ContinuesBelowSystem
    /\ WildcardUngated

\* a Get in a workspace whose type has no system keys, for a name the system workspace
\* holds, returned the schema the workspace's binding provides
C18_Witness ==
    /\ SingleClusterGet
    /\ last.ctx.cluster = Ws2
    /\ last.name = NameCW
    /\ InStore(SystemKeyOf(NameCW))
    /\ SystemKeyOf(NameCW) \notin Keys(Ws2)
    /\ last.out.err = ""
    /\ last.out.obj.v.cluster = ShadowWorkspaceName

\* ----------------------------------------------------------------- C19

\* C19: a miss when fetching a named system key is fatal for the call: if a name is in
\* Keys(C) but the schema under the system key is not in the store, both List(C) and
\* Get(C, name) fail with an error, and neither returns a binding or local schema of
\* that name in its place.
C19_SystemMissFatal ==
    /\ (SingleClusterGet
            /\ SystemKeyOf(last.name) \in Keys(last.ctx.cluster)
            /\ ~InStore(SystemKeyOf(last.name))) =>
          last.out.err # ""
    /\ (last.op = "List"
            /\ last.ctx.cluster # Wildcard
            /\ \E k \in Keys(last.ctx.cluster) : ~InStore(k)) =>
          (last.out.err # "" /\ last.objs = <<>>)

\* ----------------------------------------------------------------- C20

\* the system source serves name in cluster c
SystemServes(c, name) ==
    /\ InStore(SystemKeyOf(name))
    /\ c = Wildcard \/ SystemKeyOf(name) \in Keys(c)

\* the bound resources of binding b that match (identity, group, resource)
MatchesOf(b, identity, name) ==
    {j \in DOMAIN b.boundResources :
        /\ BindsName(b.boundResources[j], name)
        /\ b.boundResources[j].identityHash = identity}

\* the bindings of the by-identity-group-resource index, any cluster, in index order
IndexedFor(identity, name) ==
    {i \in DOMAIN bindings : MatchesOf(bindings[i], identity, name) # {}}

\* a Get with an identity, for a name the system source does not serve, returned
IdentityGetReturned ==
    /\ last.op = "Get"
    /\ last.ctx.cluster # <<>>
    /\ last.ctx.identity # ""
    /\ ~SystemServes(last.ctx.cluster, last.name)

\* what the identity path yields
IdentityPathOnly ==
    LET identity == last.ctx.identity
        name == last.name
        idx == IndexedFor(identity, name)
        v == last.out.obj.v
    IN  IF idx = {} THEN last.out.err = "NotFound"
        ELSE LET first == bindings[CHOOSE i \in idx : \A j \in idx : i <= j]
                 hits == MatchesOf(first, identity, name)
                 r == first.boundResources[CHOOSE i \in hits : \A j \in hits : i <= j]
             IN  IF ~InStore(ShadowKey(r)) THEN last.out.err # ""
                 ELSE /\ last.out.err = ""
                      /\ CRDKey(v) = ShadowKey(r)
                      /\ v.annotations[AnnotationAPIIdentityKey] = identity
                      /\ first.deletionTimestamp # 0 =>
                            v.deletionTimestamp = first.deletionTimestamp
                      /\ ~isPartialMetadataRequest(last.ctx) =>
                            DecoratedAs(v, StoreAt(ShadowKey(r)), identity,
                                        first.deletionTimestamp)

\* C20: when the request context carries a non-empty identity and the name is not
\* served by the system source, Get resolves only through the identity path: it returns
\* the shadow schema of the matching bound resource of the first binding of the
\* by-identity-group-resource index, decorated with that identity, and not-found when
\* the index has no such binding; it never falls through to the wildcard or local
\* sources, whatever the cluster of the context.
C20_IdentityPathOnly == IdentityGetReturned => IdentityPathOnly

\* a Get with an identity no binding carries for the name returned not-found although
\* the request's workspace has a local schema of that name
C20_Witness ==
    /\ IdentityGetReturned
    /\ last.ctx.cluster = Org
    /\ IndexedFor(last.ctx.identity, last.name) = {}
    /\ InStore(ToClusterAwareKey(Org, last.name))
    /\ last.out.err = "NotFound"

\* ----------------------------------------------------------------- C21

\* the worker takes a key from the queue
Takes == worker.pc = "idle" /\ worker'.pc = "working"

\* the worker goroutine ends
Stops == worker.pc = "idle" /\ worker'.pc = "stopped"

\* the keys taken from the queue and not yet marked Done are the one the worker holds
DoneOncePerKey ==
    queue.processing = IF worker.pc = "working" THEN {worker.key} ELSE {}

\* what the worker does to the queue around the processing of a key
WorkerProtocol ==
    /\ Takes =>
          /\ worker'.key = Head(queue.items)
          /\ worker'.key \in queue'.processing
    /\ Processes =>
          /\ worker.key \in queue.processing
          /\ worker.key \notin queue'.processing
          /\ rlog'.err =>
                /\ worker.key \in queue'.failures
                /\ ~queue.shuttingDown => worker.key \in queue'.delayed
          /\ ~rlog'.err =>
                /\ worker.key \notin queue'.failures
                /\ queue'.delayed = queue.delayed
                /\ worker.key \in Range(queue'.items) <=> worker.key \in queue.dirty
    /\ Stops => queue.shuttingDown /\ queue.items = <<>>

\* the last processing step failed on key k
FailedOn(k) == rlog.op = "process" /\ rlog.key = k /\ rlog.err

\* C21: every key a worker takes from the queue is marked Done exactly once, whatever
\* the outcome of processing; when processing fails the key is re-added with rate
\* limiting, so that while the controller keeps running the key is eventually processed
\* again; when processing succeeds the key's rate-limit history is forgotten and the key
\* is not re-added; the worker stops only when the queue reports shutdown.
C21_WorkerLoop ==
    /\ []DoneOncePerKey
    /\ [][WorkerProtocol]_vars
    /\ \A k \in STKeys :
          FailedOn(k) ~> ((worker.pc = "working" /\ worker.key = k) \/ queue.shuttingDown)

\* the worker has taken again, after its backoff, a key whose processing had failed
C21_Witness ==
    /\ worker.pc = "working"
    /\ worker.key \in queue.failures
    /\ worker.key \in queue.processing
    /\ worker.key \notin queue.delayed
    /\ ~queue.shuttingDown

\* ----------------------------------------------------------------- C22

\* the informer of APIExports or of APIResourceSchemas delivers an event
FanOutEvent == informers'.event.seq = events' /\ events' = events + 1

\* the sync targets an event on export e must enqueue
TargetsOfExport(e) == {k \in DOMAIN syncTargets : e \in SupportedAPIExports(k)}

\* the sync targets an event on schema sch must enqueue
TargetsOfSchema(sch) ==
    UNION {TargetsOfExport(e) :
              e \in {x \in DOMAIN informers.exports : sch \in informers.exports[x]}}

\* the queue after exactly the keys of S were added to q, in some order
Enqueued(q, S) == {EnqueueEach(q, seq) : seq \in Perms(S)}

\* C22: every add, update or delete event on an API-resource-schema enqueues every sync
\* target that references an export containing the schema; every add, update or delete
\* event on an API-export enqueues every sync target that references the export; no
\* other sync-target key is enqueued by such an event.
C22_FanOut ==
    [][ FanOutEvent =>
          LET ev == informers'.event
          IN  /\ ev.kind = "export" => queue' \in Enqueued(queue, TargetsOfExport(ev.name))
              /\ ev.kind = "schema" => queue' \in Enqueued(queue, TargetsOfSchema(ev.name))
      ]_vars

\* ----------------------------------------------------------------- C23

\* the informer delivers the delete of sync target k
DeleteOfKey(k) == k \in DOMAIN syncTargets /\ k \notin DOMAIN syncTargets'

\* C23: while the controller runs with a fair worker, the delete of a sync target, whether
\* delivered with the object or as a final-state-unknown tombstone, enqueues the key, and
\* eventually GetAPIDefinitionSet for the key reports exists = FALSE (unless the sync
\* target is added again).
C23_DeletionReflected ==
    /\ [][\A k \in STKeys : DeleteOfKey(k) => k \in queue'.dirty]_vars
    /\ \A k \in STKeys :
          (k \notin DOMAIN syncTargets)
             ~> (~GetAPIDefinitionSet(k).exists \/ k \in DOMAIN syncTargets)

\* ----------------------------------------------------------------- C24

\* the definitions GetAPIDefinitionSet exposes for key: those of the set it returns with
\* exists = TRUE
Exposed(key) ==
    IF GetAPIDefinitionSet(key).exists THEN DefsOf(GetAPIDefinitionSet(key).apiSet) ELSE {}

\* C24: in every reachable state, also after the shutdown teardown of Start and after a
\* set was removed, no definition of a set that GetAPIDefinitionSet returns with
\* exists = TRUE has had TearDown called on it.
C24_NoTornDownExposed ==
    \A key \in STKeys : \A d \in Exposed(key) : tearDowns[d] = 0

\* ----------------------------------------------------------------- C25

\* the schemas the last List or Get returned
ReturnedObjs ==
    IF last.op = "List" THEN Range(last.objs)
    ELSE IF last.op = "Get" /\ last.out.err = "" THEN {last.out.obj}
    ELSE {}

\* the bindings the last call drew bound schemas from: the first binding of the
\* by-identity-group-resource index on the identity path, the bindings of the request's
\* workspace otherwise
SourceBindings ==
    IF last.op = "Get" /\ last.ctx.identity # ""
    THEN LET idx == IndexedFor(last.ctx.identity, last.name)
         IN  IF idx = {} THEN {} ELSE {bindings[CHOOSE i \in idx : \A j \in idx : i <= j]}
    ELSE {b \in Range(bindings) : b.cluster = last.ctx.cluster}

\* C25: on every path of List and Get, the identity path included, a schema sourced from
\* an APIBinding is returned only if that binding's InitialBindingCompleted condition is
\* true.
C25_OnlyCompletedBindings ==
    \A o \in ReturnedObjs :
        IsBindingEntry(o) =>
            \E b \in SourceBindings :
                /\ IsCompleted(b)
                /\ \E j \in DOMAIN b.boundResources : ShadowKey(b.boundResources[j]) = CRDKey(o.v)

\* ----------------------------------------------------------------- C26

\* a List of a single workspace with the match-everything selector returned, with or
\* without an error, no index lookup having failed
PlainListReturned ==
    /\ last.op = "List"
    /\ last.ctx.cluster \notin {Wildcard, <<>>}
    /\ last.selector = {}
    /\ last.fault = "none"

\* Get for name in the same workspace, without identity and without partial metadata,
\* agrees with what the List returned under the name
AgreesWithGet(name) ==
    LET got == Get(Ctx(last.ctx.cluster, "", <<>>), name)
        entries == EntriesNamed(name)
    IN  /\ entries # {} <=> got.err = ""
        /\ got.err = "" =>
              \A i \in entries :
                  /\ last.objs[i].v = got.obj.v
                  /\ last.objs[i].ptr = got.obj.ptr

\* C26: for every workspace C that is not the wildcard, in every state of the store, a
\* name has an entry in List(C, match-everything) exactly when Get(C, name), without
\* identity and without partial metadata, succeeds, and then both return the same schema
\* from the same source with the same decoration.
C26_ListGetAgree ==
    PlainListReturned => \A name \in StoreNames \cup ReqNames : AgreesWithGet(name)

\* ----------------------------------------------------------------- C27

\* a List returned schemas
ListReturned == last.op = "List" /\ last.out.err = ""

\* the entries of the last List that came from the system source
SystemEntries == {i \in DOMAIN last.objs : last.objs[i].v.cluster = SystemCRDLogicalCluster}

\* C27 as stated: every schema List(ctx, selector) returns has labels that match selector,
\* whichever of the three sources (system, binding, local) it came from.
C27_AllMatchSelector ==
    ListReturned =>
        \A i \in DOMAIN last.objs : SelectorMatches(last.selector, last.objs[i].v.labels)

\* C27 (amended): every schema List(ctx, selector) returns from a binding or from the
\* workspace itself has labels that match selector; the system schemas of the workspace's
\* key set are all returned, whatever their labels.
C27_NonSystemMatchSelector ==
    ListReturned =>
        /\ \A i \in (DOMAIN last.objs) \ SystemEntries :
              SelectorMatches(last.selector, last.objs[i].v.labels)
        /\ {CRDKey(last.objs[i].v) : i \in SystemEntries} = Keys(last.ctx.cluster)

\* a List with a selector returned a system schema the selector does not match together
\* with a bound schema it matches, while a bound schema it does not match was left out
C27_Witness ==
    /\ ListReturned
    /\ last.selector # {}
    /\ \E i \in SystemEntries : ~SelectorMatches(last.selector, last.objs[i].v.labels)
    /\ \E i \in (DOMAIN last.objs) \ SystemEntries : IsBindingEntry(last.objs[i])
    /\ \E q \in BoundPositions :
          /\ bindings[q[1]].cluster = last.ctx.cluster
          /\ bindings[q[1]].completed
          /\ InStore(ShadowKey(BoundAt(q)))
          /\ ~SelectorMatches(last.selector, StoreAt(ShadowKey(BoundAt(q))).labels)

====
